---- MODULE Spec2Model ----
(***************************************************************************)
(* Model of the query translator of feathers-elasticsearch:                *)
(*   src/src/utils/parse-query.ts       parseQuery and its content cache   *)
(*   src/src/utils/query-handlers/*.ts  criteria and special operators     *)
(*   src/src/utils/core.ts              getType / validateType             *)
(*                                                                         *)
(* JavaScript values are tagged records [t |-> kind, v |-> payload]; the   *)
(* payload of an array is a sequence of values and the payload of an       *)
(* object is the sequence of its own properties [k |-> key, x |-> value]   *)
(* in insertion order, the order Object.keys / Object.entries report.      *)
(***************************************************************************)
EXTENDS Integers, Sequences, FiniteSets, TLC

VARIABLES
    queryCache,   \* the Map of parse-query.ts:12, as its entries in insertion order
    now,          \* Date.now()
    held,         \* what the caller holds of the last call: its result and whether
                  \* it is the very object stored in the cache
    last,         \* record of the last top-level parseQuery call
    pool,         \* the calls <<query, idProp, maxDepth>> the callers may make
    callsLeft,    \* remaining top-level calls
    ticksLeft,    \* remaining clock advances
    security,     \* service.security, fixed by the adapter's constructor
    requests,     \* the calls made on the store client, in order
    op,           \* record of the last service method called
    opsLeft       \* remaining service method calls

svcVars == <<security, requests, op, opsLeft>>
vars == <<queryCache, now, held, last, pool, callsLeft, ticksLeft,
          security, requests, op, opsLeft>>

----------------------------------------------------------------------------
(* JavaScript values                                                       *)

Num(n)  == [t |-> "number", v |-> n]
Str(s)  == [t |-> "string", v |-> s]
Bool(b) == [t |-> "boolean", v |-> b]
Null    == [t |-> "null", v |-> 0]
Undef   == [t |-> "undefined", v |-> 0]
NaN     == [t |-> "NaN", v |-> 0]
Arr(s)  == [t |-> "array", v |-> s]
Obj(ps) == [t |-> "object", v |-> ps]
P(key, val) == [k |-> key, x |-> val]
EmptyObj == Obj(<<>>)

\* own keys of an object, in insertion order (Object.keys)
Keys(o) == [i \in 1..Len(o.v) |-> o.v[i].k]
Has(o, key) == \E i \in 1..Len(o.v) : o.v[i].k = key
\* o[key]: the property's value, undefined when absent
Get(o, key) ==
    IF Has(o, key)
    THEN o.v[CHOOSE i \in 1..Len(o.v) : o.v[i].k = key].x
    ELSE Undef
\* o[key] = val: an existing property keeps its position, a new one goes last
Put(o, key, val) ==
    IF Has(o, key)
    THEN Obj([i \in 1..Len(o.v) |-> IF o.v[i].k = key THEN P(key, val) ELSE o.v[i]])
    ELSE Obj(Append(o.v, P(key, val)))
\* delete o[key]
Del(o, key) == Obj(SelectSeq(o.v, LAMBDA p : p.k # key))

\* JavaScript truthiness of the values of the model
Truthy(val) ==
    CASE val.t = "undefined" -> FALSE
      [] val.t = "null"      -> FALSE
      [] val.t = "NaN"       -> FALSE
      [] val.t = "boolean"   -> val.v
      [] val.t = "number"    -> val.v # 0
      [] val.t = "string"    -> val.v # ""
      [] OTHER               -> TRUE

----------------------------------------------------------------------------
(* core.ts                                                                 *)

\* The kind of a value: the tag is the outcome of the chain of tests of
\* core.ts:10-12 (Array.isArray, === null, typeof, isNaN).
getType(value) ==
    CASE value.t = "array"  -> "array"
      [] value.t = "null"   -> "null"
      [] value.t = "NaN"    -> "NaN"
      [] OTHER              -> value.t

\* validateType: TRUE when the kind is among the validators; the caller
\* raises BadRequest otherwise (core.ts:34-38).
validateType(value, validators) == getType(value) \in validators

\* removeProps(object, prop)
removeProps(object, prop) == Del(object, prop)

----------------------------------------------------------------------------
(* Outcomes of a translation: err = "" for a normal return of val.         *)

E_TYPE  == "BadRequest: invalid type"
E_DEPTH == "BadRequest: nesting exceeds maximum depth"
E_SQS   == "BadRequest: query string rejected"
E_JS    == "TypeError"

Ok(val)   == [err |-> "", val |-> val]
Fail(e)   == [err |-> e, val |-> Null]
BadRequestErrors == {E_TYPE, E_DEPTH, E_SQS}

----------------------------------------------------------------------------
(* parse-query.ts: cache key                                               *)

\* Every property name of the model in the order Array.prototype.sort()
\* gives them (UTF-16 code units: "$" < "_" < lower-case letters).
SortedKeyNames ==
    << "$all", "$and", "$child", "$exists", "$fields", "$foo", "$gt", "$gte",
       "$in", "$lt", "$lte", "$match", "$missing", "$ne", "$nested", "$nin",
       "$operator", "$or", "$parent", "$path", "$phrase", "$phrase_prefix",
       "$prefix", "$query", "$regexp", "$sqs", "$type", "$wildcard",
       "__proto__", "_id", "a", "b", "bool", "constructor", "default_operator",
       "exists", "field", "fields", "filter", "gt", "gte", "has_child",
       "has_parent", "id", "lt", "lte", "match", "match_all", "match_phrase",
       "match_phrase_prefix", "minimum_should_match", "must", "must_not", "n",
       "nested", "parent_type", "path", "prefix", "query", "range", "regexp",
       "should", "simple_query_string", "tenant", "term", "terms", "type",
       "wildcard" >>

\* Object.keys(obj).sort()
sortKeys(o) == SelectSeq(SortedKeyNames, LAMBDA key : Has(o, key))

RECURSIVE normalizeObject_unsorted(_)
\* normalizeObject without the sort of line 40
normalizeObject_unsorted(obj) ==
    CASE obj.t = "NaN"    -> Str("__NaN__")
      [] obj.t = "array"  ->
            Arr([i \in 1..Len(obj.v) |-> normalizeObject_unsorted(obj.v[i])])
      [] obj.t = "object" ->
            Obj([i \in 1..Len(obj.v) |->
                   P(obj.v[i].k, normalizeObject_unsorted(obj.v[i].x))])
      [] OTHER            -> obj

RECURSIVE normalizeObject(_)
\* parse-query.ts:22-46 (no function value is in the model's inputs)
normalizeObject(obj) ==
    CASE obj.t = "NaN"    -> Str("__NaN__")
      [] obj.t = "array"  -> Arr([i \in 1..Len(obj.v) |-> normalizeObject(obj.v[i])])
      [] obj.t = "object" ->
            LET ks == sortKeys(obj)
            IN  Obj([i \in 1..Len(ks) |-> P(ks[i], normalizeObject(Get(obj, ks[i])))])
      [] OTHER            -> obj

\* s1,s2,...,sn
RECURSIVE joinComma(_)
joinComma(strs) ==
    IF Len(strs) = 0 THEN ""
    ELSE IF Len(strs) = 1 THEN strs[1]
    ELSE strs[1] \o "," \o joinComma(Tail(strs))

RECURSIVE stringify(_)
\* JSON.stringify: a property whose value is undefined is left out, an
\* undefined or NaN array element is written null, NaN is written null.
stringify(val) ==
    CASE val.t = "number"    -> ToString(val.v)
      [] val.t = "string"    -> "\"" \o val.v \o "\""
      [] val.t = "boolean"   -> IF val.v THEN "true" ELSE "false"
      [] val.t = "array"     ->
            "[" \o joinComma([i \in 1..Len(val.v) |->
                     IF val.v[i].t = "undefined" THEN "null" ELSE stringify(val.v[i])])
                \o "]"
      [] val.t = "object"    ->
            LET ps == SelectSeq(val.v, LAMBDA p : p.x.t # "undefined")
            IN  "{" \o joinComma([i \in 1..Len(ps) |->
                         "\"" \o ps[i].k \o "\":" \o stringify(ps[i].x)])
                    \o "}"
      [] OTHER               -> "null"

\* parse-query.ts:54-58.  The key is the first 16 hex digits of the SHA-256
\* of the text; the model keeps the text itself (the digest taken as
\* collision-free).
hashQuery(query, idProp) == stringify(normalizeObject(query)) \o ":" \o idProp

RECURSIVE jsonClone(_)
\* JSON.parse(JSON.stringify(val)) of parse-query.ts:139: the value the
\* JSON text of val denotes.
jsonClone(val) ==
    CASE val.t = "array"  ->
            Arr([i \in 1..Len(val.v) |->
                   IF val.v[i].t \in {"undefined", "NaN"} THEN Null
                   ELSE jsonClone(val.v[i])])
      [] val.t = "object" ->
            LET ps == SelectSeq(val.v, LAMBDA p : p.x.t # "undefined")
            IN  Obj([i \in 1..Len(ps) |-> P(ps[i].k, jsonClone(ps[i].x))])
      [] val.t = "NaN"    -> Null
      [] OTHER            -> val

----------------------------------------------------------------------------
(* query-handlers/criteria.ts                                              *)

\* queryCriteriaMap, each path already split at the dots (criteria.ts:29);
\* "" stands for a missing operand.
queryCriteriaMap ==
    ("$nin" :> <<"must_not", "terms", "">>) @@
    ("$in" :> <<"filter", "terms", "">>) @@
    ("$gt" :> <<"filter", "range", "gt">>) @@
    ("$gte" :> <<"filter", "range", "gte">>) @@
    ("$lt" :> <<"filter", "range", "lt">>) @@
    ("$lte" :> <<"filter", "range", "lte">>) @@
    ("$ne" :> <<"must_not", "term", "">>) @@
    ("$prefix" :> <<"filter", "prefix", "">>) @@
    ("$wildcard" :> <<"filter", "wildcard", "">>) @@
    ("$regexp" :> <<"filter", "regexp", "">>) @@
    ("$match" :> <<"must", "match", "">>) @@
    ("$phrase" :> <<"must", "match_phrase", "">>) @@
    ("$phrase_prefix" :> <<"must", "match_phrase_prefix", "">>)

\* Names every plain object literal inherits from Object.prototype: a lookup
\* table[name] finds the inherited member, which is truthy.
ObjectPrototypeFunctions ==
    {"constructor", "toString", "valueOf", "hasOwnProperty", "isPrototypeOf",
     "propertyIsEnumerable", "toLocaleString"}
ObjectPrototypeNames == ObjectPrototypeFunctions \cup {"__proto__"}

\* esQuery[section].push(clause), on a section that is an array
pushClauses(esQuery, section, clauses) ==
    Put(esQuery, section, Arr(Get(esQuery, section).v \o clauses))

RECURSIVE criteriaFrom(_, _, _, _, _)
\* the forEach of criteria.ts:28-41 from the i-th criterion on
criteriaFrom(i, criteria, key, value, esQuery) ==
    IF i > Len(criteria) THEN Ok(esQuery)
    ELSE LET criterion == criteria[i] IN
         IF criterion \notin DOMAIN queryCriteriaMap
         THEN Fail(E_JS)    \* an inherited member has no split()
         ELSE LET path == queryCriteriaMap[criterion]
                  section == path[1]
                  term == path[2]
                  operand == path[3]
                  q1 == IF Get(esQuery, section).t # "array"
                        THEN Put(esQuery, section, Arr(<<>>)) ELSE esQuery
                  inner == IF operand # ""
                           THEN Obj(<<P(operand, Get(value, criterion))>>)
                           ELSE Get(value, criterion)
                  clause == Obj(<<P(term, Obj(<<P(key, inner)>>))>>)
              IN  criteriaFrom(i + 1, criteria, key, value,
                               pushClauses(q1, section, <<clause>>))

\* criteria.ts:25-44
processCriteria(key, value, esQuery) ==
    criteriaFrom(1,
        SelectSeq(Keys(value), LAMBDA criterion :
            criterion \in DOMAIN queryCriteriaMap \/ criterion \in ObjectPrototypeNames),
        key, value, esQuery)

\* processTermQuery pushing one clause that holds the whole array
processTermQuery_oneClause(key, value, esQuery) ==
    LET q1 == Put(esQuery, "filter",
                  IF Truthy(Get(esQuery, "filter")) THEN Get(esQuery, "filter")
                  ELSE Arr(<<>>))
    IN  pushClauses(q1, "filter", <<Obj(<<P("term", Obj(<<P(key, value)>>))>>)>>)

\* criteria.ts:49-61
processTermQuery(key, value, esQuery) ==
    LET q1 == Put(esQuery, "filter",
                  IF Truthy(Get(esQuery, "filter")) THEN Get(esQuery, "filter")
                  ELSE Arr(<<>>))
        vals == IF value.t = "array" THEN value.v ELSE <<value>>
    IN  pushClauses(q1, "filter",
            [i \in 1..Len(vals) |-> Obj(<<P("term", Obj(<<P(key, vals[i])>>))>>)])

----------------------------------------------------------------------------
(* security: sanitizeQueryString                                           *)

\* Query strings of the model that one of the three patterns of
\* sanitizeQueryString matches.
DangerousSamples == {"(.*)+", "(.+)+", "/.*.*"}

\* "" when the string is returned unchanged, the error otherwise: the length
\* test comes first, then the patterns.
sanitizeQueryString(queryString, maxLength) ==
    IF Len(queryString) > maxLength THEN E_SQS
    ELSE IF queryString \in DangerousSamples THEN E_SQS
    ELSE ""

SQS_MAX_LENGTH == 500

----------------------------------------------------------------------------
(* query-handlers/special.ts and parse-query.ts:120-190                    *)

RECURSIVE parseQuery(_, _, _, _)

RECURSIVE parseEach(_, _, _, _, _)
\* arrayValue.map(subQuery => parseQuery(subQuery, idProp, maxDepth, depth))
\* from the i-th element on: the results in order, or the first error raised.
parseEach(i, arrayValue, idProp, maxDepth, depth) ==
    IF i > Len(arrayValue) THEN Ok(<<>>)
    ELSE LET r == parseQuery(arrayValue[i], idProp, maxDepth, depth) IN
         IF r.err # "" THEN r
         ELSE LET rest == parseEach(i + 1, arrayValue, idProp, maxDepth, depth) IN
              IF rest.err # "" THEN rest ELSE Ok(<<r.val>> \o rest.val)

\* .filter(parsed => !!parsed)
nonNull(parsedSeq) == SelectSeq(parsedSeq, LAMBDA parsed : Truthy(parsed))

\* $or without the assignment of line 26
OrHandler_noMinimum(value, esQuery, idProp, maxDepth, currentDepth) ==
    IF ~validateType(value, {"array"}) THEN Fail(E_TYPE)
    ELSE LET q1 == Put(esQuery, "should",
                       IF Truthy(Get(esQuery, "should")) THEN Get(esQuery, "should")
                       ELSE Arr(<<>>))
             subs == parseEach(1, value.v, idProp, maxDepth, currentDepth + 1)
         IN  IF subs.err # "" THEN subs
             ELSE LET kept == nonNull(subs.val)
                  IN  Ok(pushClauses(q1, "should",
                            [i \in 1..Len(kept) |-> Obj(<<P("bool", kept[i])>>)]))

\* special.ts:9-29
OrHandler(value, esQuery, idProp, maxDepth, currentDepth) ==
    IF ~validateType(value, {"array"}) THEN Fail(E_TYPE)
    ELSE LET q1 == Put(esQuery, "should",
                       IF Truthy(Get(esQuery, "should")) THEN Get(esQuery, "should")
                       ELSE Arr(<<>>))
             subs == parseEach(1, value.v, idProp, maxDepth, currentDepth + 1)
         IN  IF subs.err # "" THEN subs
             ELSE LET kept == nonNull(subs.val)
                      q2 == pushClauses(q1, "should",
                                [i \in 1..Len(kept) |-> Obj(<<P("bool", kept[i])>>)])
                  IN  Ok(Put(q2, "minimum_should_match", Num(1)))

RECURSIVE mergeSections_overwrite(_, _, _)
\* the merge of $and assigning a section instead of concatenating
mergeSections_overwrite(i, parsed, esQuery) ==
    IF i > Len(parsed.v) THEN esQuery
    ELSE mergeSections_overwrite(i + 1, parsed,
            Put(esQuery, parsed.v[i].k, parsed.v[i].x))

RECURSIVE mergeSections(_, _, _)
\* special.ts:48-55: the sections of one sub-result, from its i-th key on
mergeSections(i, parsed, esQuery) ==
    IF i > Len(parsed.v) THEN esQuery
    ELSE LET key == parsed.v[i].k
             q1 == IF key = "minimum_should_match"
                   THEN Put(esQuery, key, Get(parsed, key))
                   ELSE IF Get(parsed, key).t = "array"
                   THEN Put(esQuery, key,
                            Arr((IF Truthy(Get(esQuery, key)) THEN Get(esQuery, key).v
                                 ELSE <<>>) \o Get(parsed, key).v))
                   ELSE esQuery
         IN  mergeSections(i + 1, parsed, q1)

RECURSIVE mergeParsed(_, _, _)
\* special.ts:47-56: the forEach over the sub-results, from the i-th on
mergeParsed(i, parsedSeq, esQuery) ==
    IF i > Len(parsedSeq) THEN esQuery
    ELSE mergeParsed(i + 1, parsedSeq, mergeSections(1, parsedSeq[i], esQuery))

\* special.ts:34-59
AndHandler(value, esQuery, idProp, maxDepth, currentDepth) ==
    IF ~validateType(value, {"array"}) THEN Fail(E_TYPE)
    ELSE LET subs == parseEach(1, value.v, idProp, maxDepth, currentDepth + 1) IN
         IF subs.err # "" THEN subs
         ELSE Ok(mergeParsed(1, nonNull(subs.val), esQuery))

\* esQuery.must = esQuery.must || []; esQuery.must.push(clause)
pushMust(esQuery, clause) ==
    pushClauses(Put(esQuery, "must",
                    IF Truthy(Get(esQuery, "must")) THEN Get(esQuery, "must")
                    ELSE Arr(<<>>)),
                "must", <<clause>>)

\* special.ts:64-79
AllHandler(value, esQuery) ==
    IF ~Truthy(value) THEN Ok(esQuery)
    ELSE Ok(pushMust(esQuery, Obj(<<P("match_all", EmptyObj)>>)))

\* special.ts:85-117
SqsHandler(value, esQuery) ==
    IF value.t \in {"null", "undefined"} THEN Ok(esQuery)
    ELSE IF ~validateType(value, {"object"}) THEN Fail(E_TYPE)
    ELSE IF ~validateType(Get(value, "$fields"), {"array"}) THEN Fail(E_TYPE)
    ELSE IF ~validateType(Get(value, "$query"), {"string"}) THEN Fail(E_TYPE)
    ELSE IF Truthy(Get(value, "$operator"))
            /\ ~validateType(Get(value, "$operator"), {"string"}) THEN Fail(E_TYPE)
    ELSE IF sanitizeQueryString(Get(value, "$query").v, SQS_MAX_LENGTH) # ""
    THEN Fail(sanitizeQueryString(Get(value, "$query").v, SQS_MAX_LENGTH))
    ELSE Ok(pushMust(esQuery,
            Obj(<<P("simple_query_string",
                    Obj(<<P("fields", Get(value, "$fields")),
                          P("query", Get(value, "$query")),
                          P("default_operator",
                            IF Truthy(Get(value, "$operator"))
                            THEN Get(value, "$operator") ELSE Str("or"))>>))>>)))

\* special.ts:122-153
NestedHandler(value, esQuery, idProp, maxDepth, currentDepth) ==
    IF value.t \in {"null", "undefined"} THEN Ok(esQuery)
    ELSE IF ~validateType(value, {"object"}) THEN Fail(E_TYPE)
    ELSE IF ~validateType(Get(value, "$path"), {"string"}) THEN Fail(E_TYPE)
    ELSE LET sub == parseQuery(removeProps(value, "$path"), idProp, maxDepth,
                               currentDepth + 1) IN
         IF sub.err # "" THEN sub
         ELSE IF ~Truthy(sub.val) THEN Ok(esQuery)
         ELSE Ok(pushMust(esQuery,
                 Obj(<<P("nested",
                         Obj(<<P("path", Get(value, "$path")),
                               P("query", Obj(<<P("bool", sub.val)>>))>>))>>)))

\* special.ts:158-193
ChildOrParentHandler(queryType, value, esQuery, idProp, maxDepth, currentDepth) ==
    LET queryName == IF queryType = "$child" THEN "has_child" ELSE "has_parent"
        typeName == IF queryType = "$child" THEN "type" ELSE "parent_type"
    IN  IF value.t \in {"null", "undefined"} THEN Ok(esQuery)
        ELSE IF ~validateType(value, {"object"}) THEN Fail(E_TYPE)
        ELSE IF ~validateType(Get(value, "$type"), {"string"}) THEN Fail(E_TYPE)
        ELSE LET sub == parseQuery(removeProps(value, "$type"), idProp, maxDepth,
                                   currentDepth + 1) IN
             IF sub.err # "" THEN sub
             ELSE IF ~Truthy(sub.val) THEN Ok(esQuery)
             ELSE Ok(pushMust(esQuery,
                     Obj(<<P(queryName,
                             Obj(<<P(typeName, Get(value, "$type")),
                                   P("query", Obj(<<P("bool", sub.val)>>))>>))>>)))

\* special.ts:198-221
ExistsOrMissingHandler(clause, value, esQuery) ==
    IF value.t \in {"null", "undefined"} THEN Ok(esQuery)
    ELSE IF ~validateType(value, {"array"}) THEN Fail(E_TYPE)
    ELSE IF \E i \in 1..Len(value.v) : ~validateType(value.v[i], {"string"})
    THEN Fail(E_TYPE)
    ELSE Ok(Put(esQuery, clause,
                Arr((IF Truthy(Get(esQuery, clause)) THEN Get(esQuery, clause).v
                     ELSE <<>>)
                    \o [i \in 1..Len(value.v) |->
                          Obj(<<P("exists", Obj(<<P("field", value.v[i])>>))>>)])))

\* the own keys of specialQueryHandlers (parse-query.ts:95-110)
SpecialKeys ==
    {"$or", "$and", "$all", "$sqs", "$nested", "$exists", "$missing",
     "$child", "$parent"}

\* specialQueryHandlers[key](value, result, idProp, maxDepth, currentDepth)
specialQueryHandlers(key, value, esQuery, idProp, maxDepth, currentDepth) ==
    CASE key = "$or"      -> OrHandler(value, esQuery, idProp, maxDepth, currentDepth)
      [] key = "$and"     -> AndHandler(value, esQuery, idProp, maxDepth, currentDepth)
      [] key = "$all"     -> AllHandler(value, esQuery)
      [] key = "$sqs"     -> SqsHandler(value, esQuery)
      [] key = "$nested"  -> NestedHandler(value, esQuery, idProp, maxDepth, currentDepth)
      [] key = "$exists"  -> ExistsOrMissingHandler("must", value, esQuery)
      [] key = "$missing" -> ExistsOrMissingHandler("must_not", value, esQuery)
      [] key = "$child"   ->
            ChildOrParentHandler("$child", value, esQuery, idProp, maxDepth, currentDepth)
      [] key = "$parent"  ->
            ChildOrParentHandler("$parent", value, esQuery, idProp, maxDepth, currentDepth)

\* reduceStep rewriting the id alias at the top level only
reduceStep_topLevelAlias(result, key0, value, idProp, maxDepth, currentDepth) ==
    LET key == IF key0 = idProp /\ currentDepth = 0 THEN "_id" ELSE key0 IN
    IF key \in SpecialKeys
    THEN specialQueryHandlers(key, value, result, idProp, maxDepth, currentDepth)
    ELSE IF key = "__proto__" THEN Fail(E_JS)
    ELSE IF ~validateType(value,
                {"number", "string", "boolean", "undefined", "object", "array"})
    THEN Fail(E_TYPE)
    ELSE IF getType(value) # "object" THEN Ok(processTermQuery(key, value, result))
    ELSE processCriteria(key, value, result)

\* One step of the reduce, parse-query.ts:153-176.  The filter keys of the
\* model never name a function member of Object.prototype; "__proto__",
\* which a parsed JSON text can carry as an own key, finds the prototype
\* object in the handler table, and calling it raises a TypeError.
reduceStep(result, key0, value, idProp, maxDepth, currentDepth) ==
    LET key == IF key0 = idProp THEN "_id" ELSE key0 IN
    IF key \in SpecialKeys
    THEN specialQueryHandlers(key, value, result, idProp, maxDepth, currentDepth)
    ELSE IF key = "__proto__" THEN Fail(E_JS)
    ELSE IF ~validateType(value,
                {"number", "string", "boolean", "undefined", "object", "array"})
    THEN Fail(E_TYPE)
    ELSE IF getType(value) # "object" THEN Ok(processTermQuery(key, value, result))
    ELSE processCriteria(key, value, result)

RECURSIVE reduceFrom(_, _, _, _, _, _)
\* Object.entries(query).reduce(..., {}) from the i-th entry on
reduceFrom(i, query, result, idProp, maxDepth, currentDepth) ==
    IF i > Len(query.v) THEN Ok(result)
    ELSE LET r == reduceStep(result, query.v[i].k, query.v[i].x, idProp, maxDepth,
                             currentDepth) IN
         IF r.err # "" THEN r
         ELSE reduceFrom(i + 1, query, r.val, idProp, maxDepth, currentDepth)

\* parse-query.ts:153-176: the accumulator after all keys
reduceQuery(query, idProp, maxDepth, currentDepth) ==
    reduceFrom(1, query, EmptyObj, idProp, maxDepth, currentDepth)

\* line 178 testing for a non-empty section instead of a key
queryResultOf_nonEmpty(bool) ==
    IF \E i \in 1..Len(bool.v) : bool.v[i].x.t = "array" /\ Len(bool.v[i].x.v) > 0
    THEN bool ELSE Null

\* parse-query.ts:178
queryResultOf(bool) == IF Len(bool.v) # 0 THEN bool ELSE Null

\* parseQuery as it runs without the cache: every call with currentDepth > 0
\* (the handlers always pass currentDepth + 1) and a top-level call after a
\* miss.  Lines 126-130, 143-146, 153-178.
parseQuery(query, idProp, maxDepth, currentDepth) ==
    IF ~validateType(query, {"object", "null", "undefined"}) THEN Fail(E_TYPE)
    ELSE IF query.t \in {"null", "undefined"} THEN Ok(Null)
    ELSE IF currentDepth > maxDepth THEN Fail(E_DEPTH)
    ELSE LET r == reduceQuery(query, idProp, maxDepth, currentDepth) IN
         IF r.err # "" THEN r ELSE Ok(queryResultOf(r.val))

----------------------------------------------------------------------------
(* parse-query.ts: the cache                                               *)

CACHE_MAX_SIZE == 1000
CACHE_MAX_AGE == 5 * 60 * 1000

\* queryCache.has(key) / queryCache.get(key)
cacheHas(cache, key) == \E i \in 1..Len(cache) : cache[i].key = key
cacheGet(cache, key) == cache[CHOOSE i \in 1..Len(cache) : cache[i].key = key]

\* queryCache.set(key, {result, timestamp}): a Map keeps the position of a
\* key it already holds and appends a new one.
cacheSet(cache, key, result, timestamp) ==
    LET entry == [key |-> key, result |-> result, timestamp |-> timestamp] IN
    IF cacheHas(cache, key)
    THEN [i \in 1..Len(cache) |-> IF cache[i].key = key THEN entry ELSE cache[i]]
    ELSE Append(cache, entry)

\* cleanCache removing the entries inserted first, whatever their timestamps
cleanCache_insertionOrder(cache, time) ==
    LET kept == SelectSeq(cache, LAMBDA e : ~(time - e.timestamp > CACHE_MAX_AGE))
        excess == Len(kept) - CACHE_MAX_SIZE
    IN  IF Len(kept) > CACHE_MAX_SIZE
        THEN SubSeq(kept, excess + 1, Len(kept))
        ELSE kept

\* parse-query.ts:63-82.  The sort of line 77 is stable, so among equal
\* timestamps the entries inserted first are removed first.
cleanCache(cache, time) ==
    LET kept == SelectSeq(cache, LAMBDA e : ~(time - e.timestamp > CACHE_MAX_AGE))
        excess == Len(kept) - CACHE_MAX_SIZE
        before(i) == Cardinality({j \in 1..Len(kept) :
                        \/ kept[j].timestamp < kept[i].timestamp
                        \/ kept[j].timestamp = kept[i].timestamp /\ j < i})
        marked == [i \in 1..Len(kept) |->
                     [entry |-> kept[i], toRemove |-> before(i) < excess]]
        remaining == SelectSeq(marked, LAMBDA m : ~m.toRemove)
    IN  IF Len(kept) > CACHE_MAX_SIZE
        THEN [n \in 1..Len(remaining) |-> remaining[n].entry]
        ELSE kept

----------------------------------------------------------------------------
(* The callers                                                             *)

NoCall ==
    [kind |-> "none", query |-> Null, idProp |-> "", maxDepth |-> 0,
     out |-> Ok(Null), hit |-> FALSE, age |-> 0, reduced |-> FALSE,
     bool |-> EmptyObj, cleaned |-> FALSE]

NothingHeld == [val |-> Null, shared |-> FALSE, key |-> "", mutated |-> FALSE]

\* a top-level call that stores what the reduce left, failed or not
callOutcome_storesFailures(cache, time, query, idProp, maxDepth, clean, r) ==
    LET early == ~validateType(query, {"object", "null", "undefined"})
                 \/ query.t \in {"null", "undefined"}
        cacheKey == hashQuery(query, idProp)
        isHit == ~early /\ cacheHas(cache, cacheKey)
        cached == cacheGet(cache, cacheKey)
        tooDeep == 0 > maxDepth
        runs == ~early /\ ~isHit /\ ~tooDeep
        cache1 == IF runs /\ clean THEN cleanCache(cache, time) ELSE cache
        queryResult == queryResultOf(r.val)
        out == IF early
               THEN (IF query.t \in {"null", "undefined"} THEN Ok(Null) ELSE Fail(E_TYPE))
               ELSE IF isHit
               THEN Ok(IF Truthy(cached.result) THEN jsonClone(cached.result) ELSE Null)
               ELSE IF tooDeep THEN Fail(E_DEPTH)
               ELSE IF r.err # "" THEN r
               ELSE Ok(queryResult)
        stored == runs
    IN  [cache |-> IF stored THEN cacheSet(cache1, cacheKey,
                                 IF r.err = "" THEN queryResult ELSE Null, time)
                   ELSE cache1,
         held |-> [val |-> out.val, shared |-> stored /\ out.val.t = "object",
                   key |-> IF stored THEN cacheKey ELSE "", mutated |-> FALSE],
         last |-> [kind |-> "call", query |-> query, idProp |-> idProp,
                   maxDepth |-> maxDepth, out |-> out, hit |-> isHit,
                   age |-> IF isHit THEN time - cached.timestamp ELSE 0,
                   reduced |-> runs,
                   bool |-> IF stored /\ r.err = "" THEN r.val ELSE EmptyObj,
                   cleaned |-> runs /\ clean]]

\* A top-level call parseQuery(query, idProp, maxDepth), currentDepth = 0, on
\* a cache at a time, where r is the outcome of the reduce of lines 153-176
\* on the query: the cache the call leaves, what the caller holds and the
\* record of the call.  clean is the outcome of Math.random() < 0.01 at
\* line 149.
callOutcome(cache, time, query, idProp, maxDepth, clean, r) ==
    LET early == ~validateType(query, {"object", "null", "undefined"})
                 \/ query.t \in {"null", "undefined"}
        cacheKey == hashQuery(query, idProp)
        isHit == ~early /\ cacheHas(cache, cacheKey)
        cached == cacheGet(cache, cacheKey)
        tooDeep == 0 > maxDepth
        runs == ~early /\ ~isHit /\ ~tooDeep
        cache1 == IF runs /\ clean THEN cleanCache(cache, time) ELSE cache
        queryResult == queryResultOf(r.val)
        out == IF early
               THEN (IF query.t \in {"null", "undefined"} THEN Ok(Null) ELSE Fail(E_TYPE))
               ELSE IF isHit
               THEN Ok(IF Truthy(cached.result) THEN jsonClone(cached.result) ELSE Null)
               ELSE IF tooDeep THEN Fail(E_DEPTH)
               ELSE IF r.err # "" THEN r
               ELSE Ok(queryResult)
        stored == runs /\ r.err = ""
    IN  [cache |-> IF stored THEN cacheSet(cache1, cacheKey, queryResult, time)
                   ELSE cache1,
         held |-> [val |-> out.val, shared |-> stored /\ out.val.t = "object",
                   key |-> IF stored THEN cacheKey ELSE "", mutated |-> FALSE],
         last |-> [kind |-> "call", query |-> query, idProp |-> idProp,
                   maxDepth |-> maxDepth, out |-> out, hit |-> isHit,
                   age |-> IF isHit THEN time - cached.timestamp ELSE 0,
                   reduced |-> runs,
                   bool |-> IF stored THEN r.val ELSE EmptyObj,
                   cleaned |-> runs /\ clean]]

\* parseQuery(query, idProp, maxDepth) at the top level, lines 120-190
topLevelCall(cache, time, query, idProp, maxDepth, clean) ==
    callOutcome(cache, time, query, idProp, maxDepth, clean,
                reduceQuery(query, idProp, maxDepth, 0))

\* the caller's state after a call
Returned(t) ==
    /\ queryCache' = t.cache
    /\ held' = t.held
    /\ last' = t.last

\* the call made by a caller of the translator
Translate(query, idProp, maxDepth, clean) ==
    Returned(topLevelCall(queryCache, now, query, idProp, maxDepth, clean))

Call ==
    /\ callsLeft > 0
    /\ callsLeft' = callsLeft - 1
    /\ \E c \in pool, clean \in BOOLEAN : Translate(c[1], c[2], c[3], clean)
    /\ UNCHANGED <<now, pool, ticksLeft, svcVars>>

\* The clause a caller adds to a result it was given.
CallerClause == Obj(<<P("term", Obj(<<P("tenant", Num(1))>>))>>)

\* result.filter = result.filter || []; result.filter.push(clause), done by
\* the caller on the object the last call returned.  After a miss that
\* object is the one line 183 stored in the cache (line 189 returns
\* queryResult itself), so the entry changes with it.
MutateResult ==
    /\ held.val.t = "object"
    /\ ~held.mutated
    /\ LET val2 == processTermQuery("tenant", Num(1), held.val) IN
       /\ held' = [held EXCEPT !.val = val2, !.mutated = TRUE]
       /\ queryCache' =
            IF held.shared
            THEN [i \in 1..Len(queryCache) |->
                    IF queryCache[i].key = held.key
                    THEN [queryCache[i] EXCEPT !.result = val2]
                    ELSE queryCache[i]]
            ELSE queryCache
    /\ UNCHANGED <<now, last, pool, callsLeft, ticksLeft, svcVars>>

\* Time passes between calls: long enough for every entry written before to
\* be older than CACHE_MAX_AGE.
TickSteps == {CACHE_MAX_AGE + 1}

Tick ==
    /\ ticksLeft > 0
    /\ ticksLeft' = ticksLeft - 1
    /\ \E d \in TickSteps : now' = now + d
    /\ UNCHANGED <<queryCache, held, last, pool, callsLeft, svcVars>>

Next == Call \/ MutateResult \/ Tick

----------------------------------------------------------------------------
(* The service: security configuration and the store client                *)

E_NOT_ALLOWED == "MethodNotAllowed"

\* DEFAULT_SECURITY_CONFIG, the fields the methods of the model read
DEFAULT_SECURITY_CONFIG ==
    [maxQueryDepth |-> 50, maxBulkOperations |-> 10000,
     maxQueryStringLength |-> 500, allowedIndices |-> <<>>,
     allowedRawMethods |-> <<>>, maxQueryComplexity |-> 100]

includes(array, x) == \E i \in 1..Len(array) : array[i] = x

NoOp == [name |-> "none", method |-> "", query |-> Null, count |-> 0,
         err |-> "", from |-> 0, out |-> Null]

\* a call made on the store client
Request(api, index, size, body) ==
    [api |-> api, index |-> index, size |-> size, body |-> body,
     window |-> [from |-> Undef, size |-> Undef]]

\* validateRawMethod taking an empty list as no restriction
validateRawMethod_emptyAllowsAll(method, allowedMethods) ==
    IF Len(allowedMethods) # 0 /\ ~includes(allowedMethods, method) THEN E_NOT_ALLOWED
    ELSE ""

\* validateRawMethod: "" when the method is allowed
validateRawMethod(method, allowedMethods) ==
    IF Len(allowedMethods) = 0 THEN E_NOT_ALLOWED
    ELSE IF ~includes(allowedMethods, method) THEN E_NOT_ALLOWED
    ELSE ""

\* method.split('.'), of a name with at most one dot
SplitMethod ==
    ("search" :> <<"search">>) @@ ("count" :> <<"count">>)
    @@ ("indices.delete" :> <<"indices", "delete">>)
    @@ ("indices.nope" :> <<"indices", "nope">>)
    @@ ("nope" :> <<"nope">>)
RawMethods == DOMAIN SplitMethod

\* the members of the store client: functions, and objects of functions
ClientFunctions == {<<"search">>, <<"count">>, <<"indices", "delete">>}
ClientObjects == {"indices"}

\* A call of a service method: its record, for the outcome err, when the
\* store had seen the calls of requests up to the from-th.
Done(c, err) ==
    [name |-> c.name, method |-> c.method, query |-> c.query, count |-> c.count,
     err |-> err, from |-> Len(requests), out |-> Null]

\* the calls on the store client the last service method made
issued == SubSeq(requests, op.from + 1, Len(requests))

\* raw(service, method, params)
Raw ==
    /\ opsLeft > 0
    /\ opsLeft' = opsLeft - 1
    /\ \E c \in pool :
          /\ c.name = "raw"
          /\ LET err == validateRawMethod(c.method, security.allowedRawMethods)
                  path == SplitMethod[c.method]
                  missing == IF Len(path) = 1
                             THEN path \notin ClientFunctions /\ path[1] \notin ClientObjects
                             ELSE path[1] \notin ClientObjects \/ path \notin ClientFunctions
                  isFunction == path \in ClientFunctions
              IN  IF err # ""
                  THEN op' = Done(c, err) /\ UNCHANGED requests
                  ELSE IF missing
                  THEN op' = Done(c, E_NOT_ALLOWED) /\ UNCHANGED requests
                  ELSE /\ op' = Done(c, "")
                       /\ requests' = IF isFunction
                                       THEN Append(requests, Request(c.method, "", 0, Null))
                                       ELSE requests
    /\ UNCHANGED <<queryCache, now, held, last, pool, callsLeft, ticksLeft, security>>

----------------------------------------------------------------------------
(* The service: filterQuery and the complexity budget                      *)

E_COMPLEXITY == "BadRequest: query complexity exceeds maximum"
E_BULK       == "BadRequest: bulk operation limit"
E_FILTER     == "BadRequest: invalid filter"
E_NOT_FOUND  == "NotFound"

\* options.index, and the defaults of adapter.ts:63-66
ServiceIndex == "docs"
ServiceId == "_id"
ServiceParent == "_parent"
ServiceRouting == "_routing"

\* the property names of the model that begin with $
DollarKeys ==
    SpecialKeys \cup DOMAIN queryCriteriaMap
    \cup {"$foo", "$path", "$type", "$fields", "$query", "$operator", "$index",
          "$select", "$limit", "$skip", "$sort", "$routing", "$script", "$fuzzy"}

\* The filters filterQuery knows: $skip, $sort, $limit and $select of
\* @feathersjs/adapter-commons and those of adapter.ts:70-93; the
\* constructor deletes $index when allowedIndices is empty (lines 137-139).
serviceFilters(sec) ==
    {"$skip", "$sort", "$limit", "$select", "$routing", "$all", "$prefix",
     "$wildcard", "$regexp", "$exists", "$missing", "$match", "$phrase",
     "$phrase_prefix", "$sqs", "$child", "$parent", "$nested", "$and", "$or",
     "$fields", "$path", "$type", "$query", "$operator"}
    \cup (IF Len(sec.allowedIndices) = 0 THEN {} ELSE {"$index"})

\* service.filterQuery(params), adapter.ts:153-168: the filters are the
\* properties of params.query named by a filter, the query is the rest, and a
\* name that begins with $ and is no filter is rejected.
filterQuery(paramsQuery, sec) ==
    LET names == serviceFilters(sec)
        keys == Keys(paramsQuery)
    IN  [err |-> IF \E i \in 1..Len(keys) : keys[i] \in DollarKeys \ names
                 THEN E_FILTER ELSE "",
         filters |-> Obj(SelectSeq(paramsQuery.v,
                            LAMBDA e : e.k \in names /\ e.x.t # "undefined")),
         query |-> Obj(SelectSeq(paramsQuery.v, LAMBDA e : e.k \notin DollarKeys))]

\* Object.keys(query) with the values, of an object or an array
entriesOf(val) ==
    IF val.t = "array"
    THEN [i \in 1..Len(val.v) |-> P(ToString(i - 1), val.v[i])]
    ELSE val.v

\* typeof value === 'object'
typeofObject(val) == val.t \in {"object", "array", "null"}

Min(a, b) == IF a < b THEN a ELSE b

RECURSIVE calculateQueryComplexity(_)
RECURSIVE complexityFrom(_, _)
RECURSIVE complexityOfItems(_, _)

\* the loop without the recursion into plain object values
complexityFrom_flat(i, entries) ==
    IF i > Len(entries) THEN 0
    ELSE LET key == entries[i].k
             value == entries[i].x
             cost ==
                CASE key = "$wildcard" -> 5
                  [] key = "$regexp"   -> 8
                  [] key = "$fuzzy"    -> 6
                  [] key = "$prefix"   -> 3
                  [] key = "$script"   -> 15
                  [] key \in {"$or", "$and"} ->
                        IF value.t = "array" THEN complexityOfItems(1, value.v) ELSE 0
                  [] key = "$nested" ->
                        IF typeofObject(value)
                        THEN calculateQueryComplexity(value) * 10 ELSE 0
                  [] key \in {"$child", "$parent"} ->
                        IF typeofObject(value)
                        THEN calculateQueryComplexity(value) * 3 ELSE 0
                  [] OTHER ->
                        IF value.t = "array" THEN Min(Len(value.v), 100) ELSE 0
         IN  1 + cost + complexityFrom(i + 1, entries)

\* the for loop of security.ts:365-405 from the i-th key on
complexityFrom(i, entries) ==
    IF i > Len(entries) THEN 0
    ELSE LET key == entries[i].k
             value == entries[i].x
             cost ==
                CASE key = "$wildcard" -> 5
                  [] key = "$regexp"   -> 8
                  [] key = "$fuzzy"    -> 6
                  [] key = "$prefix"   -> 3
                  [] key = "$script"   -> 15
                  [] key \in {"$or", "$and"} ->
                        IF value.t = "array" THEN complexityOfItems(1, value.v) ELSE 0
                  [] key = "$nested" ->
                        IF typeofObject(value)
                        THEN calculateQueryComplexity(value) * 10 ELSE 0
                  [] key \in {"$child", "$parent"} ->
                        IF typeofObject(value)
                        THEN calculateQueryComplexity(value) * 3 ELSE 0
                  [] OTHER ->
                        IF typeofObject(value) /\ value.t # "array"
                        THEN calculateQueryComplexity(value)
                        ELSE IF value.t = "array" THEN Min(Len(value.v), 100)
                        ELSE 0
         IN  1 + cost + complexityFrom(i + 1, entries)

\* lines 385-387: twice the complexity of every item
complexityOfItems(i, items) ==
    IF i > Len(items) THEN 0
    ELSE calculateQueryComplexity(items[i]) * 2 + complexityOfItems(i + 1, items)

\* calculateQueryComplexity, security.ts:359-408
calculateQueryComplexity(query) ==
    IF ~Truthy(query) \/ ~typeofObject(query) THEN 0
    ELSE complexityFrom(1, entriesOf(query))

\* validateQueryComplexity: "" when the query is within the budget
validateQueryComplexity(query, maxComplexity) ==
    IF calculateQueryComplexity(query) > maxComplexity THEN E_COMPLEXITY ELSE ""

----------------------------------------------------------------------------
(* The service methods                                                     *)

\* What a method has done so far: the cache, the record of the last
\* translation, the calls made on the store client and the error thrown.
World(cache, heldNow, lastNow, reqs, err) ==
    [cache |-> cache, held |-> heldNow, last |-> lastNow, reqs |-> reqs, err |-> err]

\* filters.$index || service.index
indexOf(filters) ==
    IF Truthy(Get(filters, "$index")) THEN Get(filters, "$index").v ELSE ServiceIndex

\* the operators find moves from the filters back to the query, in the order
\* of remove-bulk.ts:299-315
esOperators ==
    <<"$all", "$prefix", "$wildcard", "$regexp", "$exists", "$missing", "$match",
      "$phrase", "$phrase_prefix", "$sqs", "$child", "$parent", "$nested", "$and",
      "$or">>

\* remove-bulk.ts:317-323
enhancedQueryOf(fq) ==
    LET moved == SelectSeq(esOperators, LAMBDA o : Has(fq.filters, o))
    IN  Obj(fq.query.v \o [i \in 1..Len(moved) |-> P(moved[i], Get(fq.filters, moved[i]))])

\* maxWindow of find
MAX_WINDOW == 10000

\* The $limit filter of @feathersjs/adapter-commons: with pagination
\* options the given limit, or the default, capped by the maximum.
getLimit(limit, paginate) ==
    IF Truthy(paginate)
       /\ (Truthy(Get(paginate, "default")) \/ Truthy(Get(paginate, "max")))
    THEN LET base == IF Truthy(Get(paginate, "default"))
                     THEN Get(paginate, "default").v ELSE 0
             lower == IF limit.t = "number" /\ limit.v >= 0 THEN limit.v ELSE base
         IN  IF Get(paginate, "max").t = "number"
             THEN Num(Min(lower, Get(paginate, "max").v)) ELSE Num(lower)
    ELSE limit

\* filters.$skip after adapter.ts:156-158: 0 when absent
skipOf(filters) ==
    IF Truthy(Get(filters, "$skip")) THEN Get(filters, "$skip") ELSE Num(0)

\* from and size of the search request, remove-bulk.ts:333-342
windowOf(filters, paginate) ==
    LET skip == skipOf(filters).v
        given == getLimit(Get(filters, "$limit"), paginate)
    IN  [from |-> skipOf(filters),
         size |-> IF given.t # "undefined" THEN given
                  ELSE IF paginate = Bool(FALSE)
                  THEN Num(IF MAX_WINDOW - skip > 0 THEN MAX_WINDOW - skip ELSE 0)
                  ELSE Undef]

\* find after filterQuery, where t is the outcome of the parseQuery call of
\* line 326
findWith(w, fq, sec, t, paginate) ==
    LET tooComplex == validateQueryComplexity(fq.query, sec.maxQueryComplexity)
    IN  IF w.err # "" THEN w
        ELSE IF fq.err # "" THEN [w EXCEPT !.err = fq.err]
        ELSE IF tooComplex # "" THEN [w EXCEPT !.err = tooComplex]
        ELSE IF t.last.out.err # ""
        THEN World(t.cache, t.held, t.last, w.reqs, t.last.out.err)
        ELSE World(t.cache, t.held, t.last,
                   Append(w.reqs,
                          [Request("search",
                                   IF Get(fq.filters, "$index").t \in {"null", "undefined"}
                                   THEN ServiceIndex ELSE Get(fq.filters, "$index").v,
                                   0, t.last.out.val)
                             EXCEPT !.window = windowOf(fq.filters, paginate)]),
                   "")

\* find(service, params), remove-bulk.ts:292-364, up to the search request
find(w, paramsQuery, sec, time, clean, paginate) ==
    findWith(w, filterQuery(paramsQuery, sec), sec,
             topLevelCall(w.cache, time, enhancedQueryOf(filterQuery(paramsQuery, sec)),
                          ServiceId, sec.maxQueryDepth, clean),
             paginate)

\* getQueryLength, core.ts:136-138
getQueryLength(query) ==
    Len(removeProps(removeProps(query, ServiceRouting), ServiceParent).v)

\* get after filterQuery, where viaFind is the outcome of the find of lines
\* 16-33; found is the store's answer
getWith(w, fq, found, viaFind) ==
    IF w.err # "" THEN w
    ELSE IF fq.err # "" THEN [w EXCEPT !.err = fq.err]
    ELSE IF getQueryLength(fq.query) >= 1
    THEN IF viaFind.err = "" /\ ~found
         THEN [viaFind EXCEPT !.err = E_NOT_FOUND] ELSE viaFind
    ELSE [w EXCEPT !.reqs = Append(w.reqs, Request("get", indexOf(fq.filters), 1, Null)),
                   !.err = IF found THEN "" ELSE E_NOT_FOUND]

\* get(service, id, params), get.ts:7-52
get(w, id, paramsQuery, sec, time, clean, found) ==
    getWith(w, filterQuery(paramsQuery, sec), found,
            find(w, Obj(<<P("$and", Arr(<<paramsQuery, Obj(<<P(ServiceId, id)>>)>>))>>),
                 sec, time, clean, Bool(FALSE)))

\* the store call a method ends with after service._get, when that is made,
\* has returned got
thenRequest(w, fq, mustGet, got, api) ==
    LET checked == IF mustGet THEN got ELSE w
    IN  IF w.err # "" THEN w
        ELSE IF fq.err # "" THEN [w EXCEPT !.err = fq.err]
        ELSE IF checked.err # "" THEN checked
        ELSE [checked EXCEPT
                !.reqs = Append(checked.reqs, Request(api, indexOf(fq.filters), 1, Null))]

\* patch(service, id, data, params), patch.ts:6-38
patch(w, id, paramsQuery, sec, time, clean, found) ==
    thenRequest(w, filterQuery(paramsQuery, sec),
                getQueryLength(filterQuery(paramsQuery, sec).query) >= 1,
                get(w, id, paramsQuery, sec, time, clean, found), "update")

\* remove(service, id, params), create.ts:90-115
remove(w, id, paramsQuery, sec, time, clean, found) ==
    thenRequest(w, filterQuery(paramsQuery, sec), TRUE,
                get(w, id, paramsQuery, sec, time, clean, found), "delete")

\* _create with an array and createBulk, adapter.ts:211-240 and
\* create-bulk.ts:8-107; created is the number of documents the store
\* reports as created and the method fetches back (0 if lean)
createBulk(w, count, paramsQuery, sec, created) ==
    LET fq == filterQuery(paramsQuery, sec)
        sent == Append(w.reqs, Request("bulk", indexOf(fq.filters), count, Null))
    IN  IF count = 0 THEN w
        ELSE IF fq.err # "" THEN [w EXCEPT !.err = fq.err]
        ELSE IF created = 0 THEN [w EXCEPT !.reqs = sent]
        ELSE [w EXCEPT !.reqs = Append(sent, Request("mget", "", created, Null))]

\* a bulk method once its search has returned searched with found
\* documents: the limit of lines 27-33 and 245-251, the bulk request on the
\* index and the mget for the fetched documents
bulkAfterSearch(w, preErr, sec, searched, found, index, fetched) ==
    LET sent == Append(searched.reqs, Request("bulk", index, found, Null))
    IN  IF preErr # "" THEN [w EXCEPT !.err = preErr]
        ELSE IF searched.err # "" \/ found = 0 THEN searched
        ELSE IF found > sec.maxBulkOperations THEN [searched EXCEPT !.err = E_BULK]
        ELSE IF fetched = 0 THEN [searched EXCEPT !.reqs = sent]
        ELSE [searched EXCEPT !.reqs = Append(sent, Request("mget", index, fetched, Null))]

\* patchBulk, remove-bulk.ts:221-283; found is the number of documents the
\* search returns, fetched the number of updated documents the method
\* fetches back (0 if lean)
patchBulk(w, paramsQuery, sec, time, clean, found, fetched) ==
    bulkAfterSearch(w,
        IF filterQuery(paramsQuery, sec).err # "" THEN filterQuery(paramsQuery, sec).err
        ELSE validateQueryComplexity(paramsQuery, sec.maxQueryComplexity),
        sec, find(w, Put(paramsQuery, "$select", Bool(FALSE)), sec, time, clean, Bool(FALSE)),
        found, indexOf(filterQuery(paramsQuery, sec).filters), fetched)

\* removeBulk, remove-bulk.ts:8-74: its bulk request names no index and
\* nothing is fetched after it
removeBulk(w, paramsQuery, sec, time, clean, found) ==
    bulkAfterSearch(w, validateQueryComplexity(paramsQuery, sec.maxQueryComplexity),
        sec, find(w, paramsQuery, sec, time, clean, Bool(FALSE)), found, "", 0)

\* the state a method starts in, and the state it leaves
Before == World(queryCache, held, last, requests, "")

After(c, w) ==
    /\ opsLeft > 0
    /\ opsLeft' = opsLeft - 1
    /\ queryCache' = w.cache
    /\ held' = w.held
    /\ last' = w.last
    /\ requests' = w.reqs
    /\ op' = Done(c, w.err)
    /\ UNCHANGED <<now, pool, callsLeft, ticksLeft, security>>

MaxDocs == 3       \* documents a bulk method is given or finds

\* the id of the document of get, patch and remove
DocId == Num(7)

\* params.paginate: off, not given, or a default and a maximum
Paginates ==
    {Bool(FALSE), Undef, Obj(<<P("default", Num(10)), P("max", Num(50))>>)}

Find ==
    \E c \in pool, clean \in BOOLEAN, paginate \in Paginates :
        /\ c.name = "find"
        /\ After(c, find(Before, c.query, security, now, clean, paginate))

GetOne ==
    \E c \in pool, clean \in BOOLEAN, found \in BOOLEAN :
        /\ c.name = "get"
        /\ After(c, get(Before, DocId, c.query, security, now, clean, found))

PatchOne ==
    \E c \in pool, clean \in BOOLEAN, found \in BOOLEAN :
        /\ c.name = "patch"
        /\ After(c, patch(Before, DocId, c.query, security, now, clean, found))

RemoveOne ==
    \E c \in pool, clean \in BOOLEAN, found \in BOOLEAN :
        /\ c.name = "remove"
        /\ After(c, remove(Before, DocId, c.query, security, now, clean, found))

CreateBulk ==
    \E c \in pool, created \in 0..MaxDocs :
        /\ c.name = "createBulk"
        /\ created <= c.count
        /\ After(c, createBulk(Before, c.count, c.query, security, created))

PatchBulk ==
    \E c \in pool, clean \in BOOLEAN, found \in 0..MaxDocs, fetched \in 0..MaxDocs :
        /\ c.name = "patchBulk"
        /\ fetched <= found
        /\ After(c, patchBulk(Before, c.query, security, now, clean, found, fetched))

RemoveBulk ==
    \E c \in pool, clean \in BOOLEAN, found \in 0..MaxDocs :
        /\ c.name = "removeBulk"
        /\ After(c, removeBulk(Before, c.query, security, now, clean, found))

NextService ==
    Raw \/ Find \/ GetOne \/ PatchOne \/ RemoveOne \/ CreateBulk \/ PatchBulk
    \/ RemoveBulk

----------------------------------------------------------------------------
(* Inputs                                                                  *)

MaxCalls == 2      \* top-level calls in a run of Spec
MaxTicks == 1      \* clock advances in a run
MaxChain == 2      \* deepest chain of nested $and
PureCalls == 2     \* top-level calls in a run of SpecPure
FullCalls == 1     \* top-level calls in a run of SpecFull

F1(key, val) == Obj(<<P(key, val)>>)
F2(k1, v1, k2, v2) == Obj(<<P(k1, v1), P(k2, v2)>>)

RECURSIVE AndChain(_, _)
\* n levels of $and: [ ... ] around a leaf filter
AndChain(n, leaf) ==
    IF n = 0 THEN leaf ELSE F1("$and", Arr(<<AndChain(n - 1, leaf)>>))

Aliases == {"id", "a"}
\* the aliases of SpecPure: one of them is the name of an operator
PureAliases == Aliases \cup {"$or"}
MaxDepths == {0, 1, 2}

FA == F1("a", Num(1))
FB == F1("b", Num(2))
FOr == F1("$or", Arr(<<FA, FB>>))

ChainFilters == {AndChain(n, FA) : n \in 0..MaxChain}

\* filters that differ only in the order of their keys, at the top and below
FAB == F2("a", Num(1), "b", Num(2))
FBA == F2("b", Num(2), "a", Num(1))
NestedPairs ==
    { <<F1("$or", Arr(<<FAB>>)), F1("$or", Arr(<<FBA>>))>>,
      <<F1("a", F2("$gt", Num(1), "$lt", Num(2))),
        F1("a", F2("$lt", Num(2), "$gt", Num(1)))>> }
OrderedPairs == {<<FAB, FBA>>} \cup NestedPairs

\* The calls of Spec, one of four sets: two filters whose JSON texts
\* coincide; a filter in both key orders under both aliases; filters that
\* differ in key order below the top level; chains of $and under the depth
\* limits 0 and 1.
CollidePool == {EmptyObj, F1("a", Undef)} \X {"id"} \X {2}
AliasPool == {FAB, FBA} \X Aliases \X {2}
OrderPool == ({p[1] : p \in NestedPairs} \cup {p[2] : p \in NestedPairs}) \X {"id"} \X {2}
DepthPool == ChainFilters \X {"id"} \X {0, 1}

\* filters for the translator itself
TermFilters ==
    { F1("a", Str("x")), F1("a", Bool(FALSE)), F1("a", Arr(<<>>)),
      F1("a", Arr(<<Num(1), Num(2)>>)), F1("a", Null), F1("a", NaN),
      F1("b", Undef), F1("b", Num(3)),
      F1("id", Num(7)), F2("a", Num(1), "id", Num(7)), F1("__proto__", Num(1)) }

CriteriaFilters ==
    { F1("a", F1("$gt", Num(1))), F1("a", F2("$in", Arr(<<Num(1), Num(2)>>), "$ne", Num(3))),
      F1("a", F2("$match", Str("x"), "$foo", Num(1))), F1("a", F1("$foo", Num(1))),
      F1("a", EmptyObj), F1("a", F1("constructor", Num(1))),
      F2("b", Num(2), "a", F2("$nin", Arr(<<Num(1)>>), "$lte", Num(5))) }

OrFilters ==
    { F1("$or", Arr(<<>>)), F1("$or", Arr(<<EmptyObj, EmptyObj>>)),
      F1("$or", Num(1)), F1("$or", Arr(<<Num(1)>>)), F1("$or", Arr(<<FA, Null>>)),
      F2("a", Num(1), "$or", Arr(<<FB, F1("a", F1("$lt", Num(3)))>>)),
      F1("$or", Arr(<<FOr, FB>>)) }

AndFilters ==
    { F1("$and", Arr(<<FA, FB>>)), F1("$and", Arr(<<>>)), F1("$and", Str("x")),
      F1("$and", Arr(<<EmptyObj, FA>>)),
      F2("a", Num(1), "$and", Arr(<<FB, F1("a", F1("$ne", Num(3)))>>)),
      F2("$or", Arr(<<FA>>), "$and", Arr(<<FOr, F1("b", F1("$match", Str("x")))>>)),
      F2("$or", Arr(<<FA>>), "$and", Arr(<<FB, F1("$exists", Arr(<<Str("a")>>))>>)),
      F1("$and", Arr(<<F1("$or", Arr(<<FA>>)), F1("$or", Arr(<<FB>>))>>)),
      F1("$and", Arr(<<F1("a", Arr(<<>>)), F1("$or", Arr(<<>>))>>)),
      F2("b", F1("$ne", Num(1)), "$and", Arr(<<F1("a", Null)>>)) }

OtherFilters ==
    { F1("$all", Bool(TRUE)), F1("$all", Bool(FALSE)),
      F1("$exists", Arr(<<Str("a"), Str("b")>>)), F1("$missing", Arr(<<Str("a")>>)),
      F1("$exists", Arr(<<>>)), F1("$exists", Arr(<<Num(1)>>)), F1("$missing", Null),
      F1("$sqs", Obj(<<P("$fields", Arr(<<Str("a")>>)), P("$query", Str("x"))>>)),
      F1("$sqs", Obj(<<P("$fields", Arr(<<Str("a")>>)), P("$query", Str("(.*)+")),
                       P("$operator", Str("and"))>>)),
      F1("$sqs", F1("$query", Str("x"))), F1("$sqs", Null),
      F1("$nested", F2("$path", Str("b"), "a", Num(1))),
      F1("$nested", F1("$path", Str("b"))), F1("$nested", FA),
      F1("$child", F2("$type", Str("b"), "a", Num(1))),
      F1("$parent", F2("$type", Str("b"), "$or", Arr(<<FA>>))),
      F1("$child", Num(1)) }

TopLevelInputs == {Null, Undef, Num(1), Arr(<<>>)}

\* a field holding an array of scalars
ArrayFields == {"a", "b"}
ScalarArrays ==
    { <<>>, <<Str("x")>>, <<Num(1), Num(2)>>, <<Str("x"), Bool(FALSE), Num(1)>> }
TermArrayFilters == {F1(f, Arr(vals)) : f \in ArrayFields, vals \in ScalarArrays}

\* filters with a key that begins with $ and is no operator, at the top and
\* in a sub-filter
UnknownOperatorFilters ==
    { F1("$foo", Num(1)), F2("a", Num(1), "$foo", F1("$gt", Num(1))),
      F1("$or", Arr(<<FA, F1("$foo", Num(1))>>)) }

PureFilters ==
    TermFilters \cup CriteriaFilters \cup OrFilters \cup AndFilters \cup OtherFilters
    \cup TopLevelInputs \cup {EmptyObj, FA, F1("a", Undef), AndChain(1, FA)}
    \cup TermArrayFilters \cup UnknownOperatorFilters

\* the calls SpecPure draws one of
PurePool == PureFilters \X PureAliases \X MaxDepths

\* the filter of the i-th entry of a full cache
FullFilter(i) == F1("n", Num(i))

FullPool ==
    ({FullFilter(1), FullFilter(CACHE_MAX_SIZE), FA, FB, FAB, FBA, FOr, EmptyObj,
      F1("a", Null), F1("a", Str("x")), F1("b", Num(1))}
        \X {"id"} \X {2})

----------------------------------------------------------------------------
(* Specifications                                                          *)

InitCommon ==
    /\ now = 0
    /\ held = NothingHeld
    /\ last = NoCall
    /\ ticksLeft = MaxTicks
    /\ requests = <<>>
    /\ op = NoOp

\* no service method is called
NoService == security = DEFAULT_SECURITY_CONFIG /\ opsLeft = 0

\* The process starts with an empty cache.
Init ==
    /\ InitCommon
    /\ queryCache = <<>>
    /\ pool \in {CollidePool, AliasPool, OrderPool, DepthPool}
    /\ callsLeft = MaxCalls
    /\ NoService

Spec == Init /\ [][Next]_vars

\* The translator on one call drawn from a wide set of filters, made on an
\* empty cache and then again.
InitPure ==
    /\ InitCommon
    /\ queryCache = <<>>
    /\ pool \in {{c} : c \in PurePool}
    /\ callsLeft = PureCalls
    /\ NoService

SpecPure == InitPure /\ [][Next]_vars

\* The process after CACHE_MAX_SIZE top-level calls on distinct filters,
\* none of which ran cleanCache.
InitFull ==
    /\ InitCommon
    /\ queryCache = [i \in 1..CACHE_MAX_SIZE |->
                       [key |-> hashQuery(FullFilter(i), "id"),
                        result |-> parseQuery(FullFilter(i), "id", 2, 0).val,
                        timestamp |-> 0]]
    /\ pool = FullPool
    /\ callsLeft = FullCalls
    /\ NoService

SpecFull == InitFull /\ [][Next]_vars

MaxOps == 1        \* service method calls in a run of SpecService

\* the limits of the configurations other than the default one
BulkLimit == 2
ComplexityBudget == 8
ShortLimit == 3
LongLimit == 600

StrictConfig ==
    [maxQueryDepth |-> 50, maxBulkOperations |-> BulkLimit,
     maxQueryStringLength |-> ShortLimit, allowedIndices |-> <<"logs">>,
     allowedRawMethods |-> <<"search", "indices.delete">>,
     maxQueryComplexity |-> ComplexityBudget]
WideConfig ==
    [DEFAULT_SECURITY_CONFIG EXCEPT !.maxQueryStringLength = LongLimit]

SvcCall(name, method, query, count) ==
    [name |-> name, method |-> method, query |-> query, count |-> count]

RECURSIVE Repeat(_, _)
\* a string of n copies of s
Repeat(str, n) ==
    IF n = 0 THEN ""
    ELSE LET half == Repeat(str, n \div 2)
         IN  half \o half \o (IF n % 2 = 1 THEN str ELSE "")

Sqs(queryString) ==
    F1("$sqs", Obj(<<P("$fields", Arr(<<Str("a")>>)), P("$query", Str(queryString))>>))

\* query strings shorter and longer than each limit
SqsStrings ==
    { "ab", "abcd", Repeat("x", SQS_MAX_LENGTH), Repeat("x", SQS_MAX_LENGTH + 1),
      Repeat("x", LongLimit + 1), "(.*)+" }

FWild == F1("a", F1("$wildcard", Str("x")))
FRegexp == F1("b", F1("$regexp", Str("y")))

\* filters of complexity 0, 1, 2, 17, 35, 71, 18, 2 and 1
ComplexityQueries ==
    { EmptyObj, FA, FAB, F2("a", F1("$wildcard", Str("x")), "b", F1("$regexp", Str("y"))),
      F1("$or", Arr(<<FWild, FRegexp>>)),
      F1("$nested", F2("$path", Str("p"), "a", F1("$wildcard", Str("x")))),
      F2("a", Num(1), "$and", Arr(<<FWild, FA>>)),
      F1("a", Arr(<<FB>>)), F1("$or", FA) }

\* $skip and $limit around the result window of 10000
WindowQueries ==
    { Obj(<<P("$skip", Num(9990)), P("$limit", Num(50))>>),
      Obj(<<P("$skip", Num(9990)), P("$limit", Num(10))>>),
      F1("$skip", Num(9990)), F1("$skip", Num(10001)), F1("$limit", Num(50)),
      F2("a", Num(1), "$limit", Num(100)) }

IndexQueries ==
    { EmptyObj, FA, F1("$index", Str("logs")), F1("$index", Str("secret")),
      F2("a", Num(1), "$index", Str("secret")) }

\* The runs of SpecService: a configuration and the calls made under it.
RawScenario ==
    {DEFAULT_SECURITY_CONFIG, StrictConfig}
    \X {{SvcCall("raw", m, Null, 0) : m \in RawMethods}}
BulkScenario ==
    {DEFAULT_SECURITY_CONFIG, StrictConfig}
    \X {{SvcCall("createBulk", "", EmptyObj, n) : n \in 0..MaxDocs}
        \cup {SvcCall(name, "", q, 0) :
                name \in {"patchBulk", "removeBulk"}, q \in {EmptyObj, FA}}}
IndexScenario ==
    {DEFAULT_SECURITY_CONFIG, StrictConfig}
    \X {{SvcCall(name, "", q, 0) :
            name \in {"find", "get", "patch", "remove"}, q \in IndexQueries}}
ComplexityScenario ==
    {DEFAULT_SECURITY_CONFIG, StrictConfig}
    \X {{SvcCall(name, "", q, 0) :
            name \in {"find", "removeBulk"}, q \in ComplexityQueries}}
WindowScenario ==
    {DEFAULT_SECURITY_CONFIG}
    \X {{SvcCall("find", "", q, 0) : q \in WindowQueries}}
SqsScenario ==
    {DEFAULT_SECURITY_CONFIG, StrictConfig, WideConfig}
    \X {{SvcCall("find", "", Sqs(str), 0) : str \in SqsStrings}}

Scenarios ==
    RawScenario \cup BulkScenario \cup IndexScenario \cup ComplexityScenario
    \cup SqsScenario \cup WindowScenario

\* A service on an empty cache, under one configuration.
InitService ==
    /\ InitCommon
    /\ queryCache = <<>>
    /\ callsLeft = 0
    /\ opsLeft = MaxOps
    /\ \E sc \in Scenarios : security = sc[1] /\ pool = sc[2]

SpecService == InitService /\ [][NextService]_vars

----------------------------------------------------------------------------
(* The utilities: functions of utils the service exports                   *)

\* a call of a utility on its arguments, and its record with what it
\* returned or threw
UtilCall(name, args) == [name |-> name, method |-> "", query |-> args, count |-> 0]
Arg(c, name) == Get(c.query, name)

Applied(c, err, out) ==
    /\ opsLeft > 0
    /\ opsLeft' = opsLeft - 1
    /\ op' = [Done(c, err) EXCEPT !.out = out]
    /\ UNCHANGED <<queryCache, now, held, last, pool, callsLeft, ticksLeft,
                   security, requests>>

RECURSIVE assignFrom(_, _, _)
\* Object.assign(target, source) from the i-th own key of the source on
assignFrom(i, target, source) ==
    IF source.t # "object" \/ i > Len(source.v) THEN target
    ELSE assignFrom(i + 1, Put(target, source.v[i].k, source.v[i].x), source)

\* mapItem(item, idProp, metaProp, joinProp), joinProp undefined as Undef:
\* the document returned, the item as the call leaves it, and the error
\* thrown.  The document's properties that came from _source share their
\* values with the item.
mapItem(item, idProp, metaProp, joinProp) ==
    LET meta == removeProps(item, "_source")
        source == Get(item, "_source")
        assigned == assignFrom(1, Obj(<<P(metaProp, meta)>>), source)
        result == IF Get(meta, "_id").t # "undefined"
                  THEN Put(assigned, idProp, Get(meta, "_id")) ELSE assigned
        joinValue == IF joinProp.t = "string" THEN Get(result, joinProp.v) ELSE Undef
        joins == Truthy(joinProp) /\ Truthy(joinValue) /\ typeofObject(joinValue)
        metaObj == Get(result, metaProp)
        \* result[metaProp] is still the value of _source[metaProp]
        ofSource == source.t = "object" /\ Has(source, metaProp)
                    /\ ~(idProp = metaProp /\ Get(meta, "_id").t # "undefined")
        parent == IF joinValue.t = "object" THEN Get(joinValue, "parent") ELSE Undef
        name == IF joinValue.t = "object" THEN Get(joinValue, "name") ELSE Undef
    IN  IF ~joins THEN [result |-> result, item |-> item, err |-> ""]
        ELSE IF metaObj.t # "object" THEN [result |-> Null, item |-> item, err |-> E_JS]
        ELSE [result |-> Put(Put(result, metaProp, Put(metaObj, "_parent", parent)),
                             joinProp.v, name),
              item |-> IF ofSource
                       THEN Put(item, "_source",
                                Put(source, metaProp, Put(metaObj, "_parent", parent)))
                       ELSE item,
              err |-> ""]

\* options.meta, adapter.ts:66
ServiceMeta == "_meta"

MapItem ==
    \E c \in pool :
        /\ c.name = "mapItem"
        /\ LET r == mapItem(Arg(c, "item"), Arg(c, "idProp").v, ServiceMeta,
                            Arg(c, "joinProp"))
           IN  Applied(c, r.err, Obj(<<P("result", r.result), P("item", r.item)>>))

\* DANGEROUS_KEYS
DANGEROUS_KEYS == <<"__proto__", "constructor", "prototype">>

\* a Date
Date(ms) == [t |-> "date", v |-> ms]

RECURSIVE sanitizeObject(_)
RECURSIVE sanitizeEntries(_, _)

\* sanitizeObject copying the values of the properties as they are
sanitizeEntries_shallow(i, entries) ==
    IF i > Len(entries) THEN <<>>
    ELSE IF includes(DANGEROUS_KEYS, entries[i].k) THEN sanitizeEntries(i + 1, entries)
    ELSE <<P(entries[i].k, entries[i].x)>> \o sanitizeEntries(i + 1, entries)

\* the loop of lines 126-140 from the i-th key on: the properties of the
\* sanitized object
sanitizeEntries(i, entries) ==
    IF i > Len(entries) THEN <<>>
    ELSE IF includes(DANGEROUS_KEYS, entries[i].k) THEN sanitizeEntries(i + 1, entries)
    ELSE LET value == entries[i].x
         IN  <<P(entries[i].k,
                 IF Truthy(value) /\ value.t \in {"object", "array"}
                 THEN sanitizeObject(value) ELSE value)>>
             \o sanitizeEntries(i + 1, entries)

\* sanitizeObject(obj)
sanitizeObject(obj) ==
    IF ~Truthy(obj) \/ obj.t \notin {"object", "array", "date"} \/ obj.t = "date" THEN obj
    ELSE IF obj.t = "array"
    THEN Arr([i \in 1..Len(obj.v) |-> sanitizeObject(obj.v[i])])
    ELSE Obj(sanitizeEntries(1, obj.v))

\* once, and again on what it returned
SanitizeObject ==
    \E c \in pool :
        /\ c.name = "sanitizeObject"
        /\ Applied(c, "", Obj(<<P("once", sanitizeObject(Arg(c, "obj"))),
                                P("twice", sanitizeObject(sanitizeObject(Arg(c, "obj"))))>>))

E_FIELD == "BadRequest: field is not searchable"

\* field.replace(/\^.*$/, ''), of the field names of the model: the name up
\* to its first ^
CleanField ==
    ("title" :> "title") @@ ("title^2" :> "title") @@ ("body^1.5" :> "body")
    @@ ("secret" :> "secret") @@ ("secret^3" :> "secret") @@ ("ti^tle^2" :> "ti")

RECURSIVE validateFieldsFrom(_, _, _)
\* the loop of lines 301-310 from the i-th requested field on
validateFieldsFrom(i, requestedFields, allowedFields) ==
    IF i > Len(requestedFields) THEN ""
    ELSE IF ~includes(allowedFields, CleanField[requestedFields[i]]) THEN E_FIELD
    ELSE validateFieldsFrom(i + 1, requestedFields, allowedFields)

\* validateSearchableFields: "" when every field is allowed
validateSearchableFields(requestedFields, allowedFields) ==
    IF Len(allowedFields) = 0 THEN ""
    ELSE validateFieldsFrom(1, requestedFields, allowedFields)

\* the strings of an array of strings
stringsOf(array) == [i \in 1..Len(array.v) |-> array.v[i].v]

ValidateSearchableFields ==
    \E c \in pool :
        /\ c.name = "validateSearchableFields"
        /\ Applied(c, validateSearchableFields(stringsOf(Arg(c, "requestedFields")),
                                               stringsOf(Arg(c, "allowedFields"))),
                   Null)

\* nestedOperators of validateQueryDepth
nestedOperators == <<"$or", "$and", "$nested", "$child", "$parent">>

RECURSIVE validateQueryDepth(_, _, _)
RECURSIVE depthFrom(_, _, _, _)
RECURSIVE depthOfItems(_, _, _, _)

\* the loop walking only the arrays of the nested operators
depthFrom_arraysOnly(i, entries, maxDepth, currentDepth) ==
    IF i > Len(entries) THEN ""
    ELSE LET key == entries[i].k
             value == entries[i].x
             err == IF includes(nestedOperators, key) /\ value.t = "array"
                    THEN depthOfItems(1, value.v, maxDepth, currentDepth + 1)
                    ELSE ""
         IN  IF err # "" THEN err
             ELSE depthFrom(i + 1, entries, maxDepth, currentDepth)

\* the loop of lines 165-182 from the i-th key on: "" when no value exceeds
\* the depth
depthFrom(i, entries, maxDepth, currentDepth) ==
    IF i > Len(entries) THEN ""
    ELSE LET key == entries[i].k
             value == entries[i].x
             err == IF includes(nestedOperators, key)
                    THEN IF value.t = "array"
                         THEN depthOfItems(1, value.v, maxDepth, currentDepth + 1)
                         ELSE IF value.t \in {"object", "date"}
                         THEN validateQueryDepth(value, maxDepth, currentDepth + 1)
                         ELSE ""
                    ELSE IF value.t \in {"object", "date"}
                    THEN validateQueryDepth(value, maxDepth, currentDepth + 1)
                    ELSE ""
         IN  IF err # "" THEN err
             ELSE depthFrom(i + 1, entries, maxDepth, currentDepth)

\* lines 171-173: the items of an array in turn
depthOfItems(i, items, maxDepth, currentDepth) ==
    IF i > Len(items) THEN ""
    ELSE IF validateQueryDepth(items[i], maxDepth, currentDepth) # ""
    THEN validateQueryDepth(items[i], maxDepth, currentDepth)
    ELSE depthOfItems(i + 1, items, maxDepth, currentDepth)

\* validateQueryDepth(query, maxDepth, currentDepth): "" when it returns
validateQueryDepth(query, maxDepth, currentDepth) ==
    IF ~Truthy(query) \/ query.t \notin {"object", "array", "date"} THEN ""
    ELSE IF currentDepth > maxDepth THEN E_DEPTH
    ELSE IF query.t = "date" THEN ""
    ELSE depthFrom(1, entriesOf(query), maxDepth, currentDepth)

ValidateQueryDepth ==
    \E c \in pool :
        /\ c.name = "validateQueryDepth"
        /\ Applied(c, validateQueryDepth(Arg(c, "query"), Arg(c, "maxDepth").v, 0), Null)

NextUtil ==
    MapItem \/ SanitizeObject \/ ValidateSearchableFields \/ ValidateQueryDepth

\* hits of the store: an id, an index, a score and a source
Sources ==
    { Undef, EmptyObj, F1("x", Num(1)), F2("x", Num(1), "y", Str("s")),
      F1("_meta", Num(1)), F1("_meta", F1("k", Num(1))),
      F2("id", Str("other"), "x", Num(1)), F2("_id", Num(5), "x", Num(1)),
      F2("join", Str("child"), "x", Num(1)),
      F2("join", F2("name", Str("child"), "parent", Str("p1")), "x", Num(1)),
      F2("join", F1("name", Str("c")), "_meta", F1("k", Num(1))) }
Hit(id, source) ==
    Obj(<<P("_index", Str("docs")), P("_id", id), P("_score", Num(1)),
          P("_source", source)>>)
Hits ==
    {Hit(Str("42"), src) : src \in Sources}
    \cup {Obj(<<P("_index", Str("docs")), P("_source", F1("x", Num(1)))>>)}
MapCalls ==
    { UtilCall("mapItem", Obj(<<P("item", h), P("idProp", Str(i)), P("joinProp", j)>>)) :
        h \in Hits, i \in {"id", "_id"}, j \in {Undef, Str("join")} }

\* objects with the dangerous keys at the top, under a key and in arrays
Polluted ==
    { F1("__proto__", F1("admin", Bool(TRUE))), F1("constructor", Num(1)),
      F1("prototype", Null), F2("a", Num(1), "__proto__", Num(2)) }
DirtyObjects ==
    { Num(1), Str("s"), Null, Undef, Date(0), EmptyObj, FA, FAB }
    \cup Polluted
    \cup { F1("n", q) : q \in Polluted \cup {FA, Date(0), Null} }
    \cup { Arr(<<q, FA>>) : q \in Polluted }
    \cup { F2("list", Arr(<<q, Num(1), Arr(<<q>>)>>), "b", Str("s")) : q \in Polluted }
    \cup { F1("n", F1("m", q)) : q \in Polluted }
SanitizeCalls == { UtilCall("sanitizeObject", F1("obj", o)) : o \in DirtyObjects }

StrArr(seq) == Arr([i \in 1..Len(seq) |-> Str(seq[i])])
RequestedFields ==
    { <<>>, <<"title">>, <<"title^2">>, <<"title", "body^1.5">>, <<"secret">>,
      <<"title", "secret^3">>, <<"secret^3", "title">>, <<"body^1.5">>,
      <<"ti^tle^2">> }
AllowLists == { <<>>, <<"title">>, <<"title", "body">>, <<"ti">> }
FieldCalls ==
    { UtilCall("validateSearchableFields",
               F2("requestedFields", StrArr(r), "allowedFields", StrArr(a))) :
        r \in RequestedFields, a \in AllowLists }

\* filters nested through operators and through plain objects
DepthQueries ==
    ChainFilters
    \cup { F1("a", F1("$gt", Num(1))), FOr, F1("$or", Arr(<<FOr, FA>>)),
           F1("$nested", F2("$path", Str("p"), "a", Num(1))),
           F1("$nested", F2("$path", Str("p"), "$or", Arr(<<FA>>))),
           F1("$child", F2("$type", Str("t"), "a", F1("$gt", Num(1)))),
           F2("a", Null, "$and", Arr(<<F1("$and", Arr(<<FA>>))>>)),
           F1("a", Arr(<<FA>>)), EmptyObj, Null }
DepthCalls ==
    { UtilCall("validateQueryDepth", F2("query", q, "maxDepth", Num(d))) :
        q \in DepthQueries, d \in MaxDepths }

UtilPools == {MapCalls, SanitizeCalls, FieldCalls, DepthCalls}

\* The utilities applied to the arguments of one pool.
InitUtil ==
    /\ InitCommon
    /\ queryCache = <<>>
    /\ callsLeft = 0
    /\ opsLeft = MaxOps
    /\ security = DEFAULT_SECURITY_CONFIG
    /\ pool \in UtilPools

SpecUtil == InitUtil /\ [][NextUtil]_vars

----------------------------------------------------------------------------
(* The cache under cleanCache                                              *)

\* cleanCache() at the time now, on the cache as it is; the record holds the
\* cache it found
CleanCache ==
    /\ opsLeft > 0
    /\ opsLeft' = opsLeft - 1
    /\ queryCache' = cleanCache(queryCache, now)
    /\ op' = [NoOp EXCEPT !.name = "cleanCache", !.out = queryCache]
    /\ UNCHANGED <<now, held, last, pool, callsLeft, ticksLeft, security, requests>>

NextCache ==
    CleanCache

\* the entry of the i-th query, stored at a time
CacheEntry(i, timestamp) ==
    [key |-> "q" \o ToString(i), result |-> Null, timestamp |-> timestamp]

MaxOld == 2        \* entries stored at time 0
MaxOver == 2       \* entries above CACHE_MAX_SIZE
StampOrders == {"ascending", "descending", "equal"}

\* old entries stored at time 0, then fresh ones stored from the time
\* start on, in the order given
SampleCache(old, fresh, start, order) ==
    [i \in 1..(old + fresh) |->
        CacheEntry(i, IF i <= old THEN 0
                      ELSE CASE order = "ascending"  -> start + (i - old)
                             [] order = "descending" -> start + (fresh - (i - old))
                             [] OTHER                -> start)]

FreshSizes ==
    (0..MaxOver) \cup {CACHE_MAX_SIZE + d : d \in (0 - 1)..MaxOver}

\* the times of a run: the entries of time 0 at the age limit, past it, and
\* the entries of time 1 past it
CleanTimes == {CACHE_MAX_AGE + d : d \in 0..2}

\* A cache of many queries, before the cleaning.
InitCache ==
    /\ held = NothingHeld
    /\ last = NoCall
    /\ ticksLeft = MaxTicks
    /\ requests = <<>>
    /\ op = NoOp
    /\ callsLeft = 0
    /\ opsLeft = MaxOps
    /\ security = DEFAULT_SECURITY_CONFIG
    /\ pool = {}
    /\ now \in CleanTimes
    /\ \E old \in 0..MaxOld, fresh \in FreshSizes, order \in StampOrders :
          queryCache = SampleCache(old, fresh, 1, order)

SpecCache == InitCache /\ [][NextCache]_vars

----------------------------------------------------------------------------
(* retry.ts                                                                *)

\* DEFAULT_RETRY_CONFIG
DEFAULT_RETRY_CONFIG ==
    [maxRetries |-> 3, initialDelay |-> 100, maxDelay |-> 5000,
     backoffMultiplier |-> 2,
     retryableErrors |-> <<"ConnectionError", "TimeoutError",
                           "NoLivingConnectionsError", "ResponseError",
                           "RequestAbortedError">>]

\* An error the operation throws: its name, meta.statusCode, statusCode and
\* meta.body.error.type; "" and 0 stand for a property the error lacks.
ErrorOf(name, metaStatus, status, type) ==
    [name |-> name, metaStatus |-> metaStatus, statusCode |-> status, type |-> type]

\* lines 48-49
RetryableStatuses == {429, 502, 503, 504}
\* lines 58-64
retryableESErrors ==
    <<"es_rejected_execution_exception", "cluster_block_exception",
      "unavailable_shards_exception", "node_disconnected_exception",
      "node_not_connected_exception">>

\* isRetryableError taking the name alone for a ResponseError
isRetryableError_anyStatus(error, mergedConfig) ==
    IF error.name # "" /\ includes(mergedConfig.retryableErrors, error.name)
    THEN TRUE
    ELSE IF error.type # "" THEN includes(retryableESErrors, error.type)
    ELSE FALSE

\* isRetryableError(error, config), lines 37-69
isRetryableError(error, mergedConfig) ==
    IF error.name # "" /\ includes(mergedConfig.retryableErrors, error.name)
    THEN IF error.name = "ResponseError"
         THEN LET statusCode == IF error.metaStatus # 0 THEN error.metaStatus
                                ELSE error.statusCode
              IN  statusCode # 0 /\ statusCode \in RetryableStatuses
         ELSE TRUE
    ELSE IF error.type # "" THEN includes(retryableESErrors, error.type)
    ELSE FALSE

RECURSIVE Pow(_, _)
Pow(b, n) == IF n = 0 THEN 1 ELSE b * Pow(b, n - 1)

\* calculateDelay(attempt, config), lines 77-81
calculateDelay(attempt, mergedConfig) ==
    Min(mergedConfig.initialDelay * Pow(mergedConfig.backoffMultiplier, attempt),
        mergedConfig.maxDelay)

\* what an attempt of the operation gave: a value, or the error it threw
Resolved == [ok |-> TRUE, error |-> ErrorOf("", 0, 0, "")]
Rejected(error) == [ok |-> FALSE, error |-> error]

\* A call of withRetry in progress: the loop variable, where the call is
\* (running the operation, waiting before the next attempt, resolved,
\* rejected), what the attempts gave, and the error thrown.
RetryState(config, attempt, at, results, thrown) ==
    [NoOp EXCEPT !.name = "withRetry",
                 !.out = [config |-> config, attempt |-> attempt, at |-> at,
                          results |-> results, thrown |-> thrown]]

\* withRetry(operation, config) up to the first test of the loop
WithRetry ==
    /\ op.name = "none"
    /\ opsLeft > 0
    /\ opsLeft' = opsLeft - 1
    /\ \E config \in pool :
          op' = RetryState(config, 0, "running", <<>>, ErrorOf("", 0, 0, ""))
    /\ UNCHANGED <<queryCache, now, held, last, pool, callsLeft, ticksLeft,
                   security, requests>>

RetryErrors ==
    { ErrorOf("ConnectionError", 0, 0, ""), ErrorOf("TimeoutError", 0, 0, ""),
      ErrorOf("ResponseError", 503, 0, ""), ErrorOf("ResponseError", 0, 429, ""),
      ErrorOf("ResponseError", 500, 0, ""), ErrorOf("ResponseError", 0, 0, ""),
      ErrorOf("ResponseError", 400, 0, "cluster_block_exception"),
      ErrorOf("", 0, 0, "es_rejected_execution_exception"),
      ErrorOf("Error", 0, 0, ""), ErrorOf("Error", 0, 0, "parsing_exception") }

\* One pass of the loop body, lines 95-109: the operation is invoked and
\* resolves or throws.
InvokeOperation ==
    /\ op.name = "withRetry"
    /\ op.out.at = "running"
    /\ \E result \in {Resolved} \cup {Rejected(e) : e \in RetryErrors} :
          LET s == op.out
              results == Append(s.results, result)
          IN  op' = IF result.ok
                    THEN RetryState(s.config, s.attempt, "resolved", results, s.thrown)
                    ELSE IF s.attempt = s.config.maxRetries
                            \/ ~isRetryableError(result.error, s.config)
                    THEN RetryState(s.config, s.attempt, "rejected", results, result.error)
                    ELSE RetryState(s.config, s.attempt, "waiting", results, s.thrown)
    /\ UNCHANGED <<queryCache, now, held, last, pool, callsLeft, ticksLeft,
                   security, requests, opsLeft>>

\* lines 111-113 and the loop's increment: the delay passes and the next
\* attempt begins
Backoff ==
    /\ op.name = "withRetry"
    /\ op.out.at = "waiting"
    /\ now' = now + calculateDelay(op.out.attempt, op.out.config)
    /\ op' = RetryState(op.out.config, op.out.attempt + 1,
                        IF op.out.attempt + 1 <= op.out.config.maxRetries
                        THEN "running" ELSE "rejected",
                        op.out.results,
                        IF op.out.attempt + 1 <= op.out.config.maxRetries
                        THEN op.out.thrown
                        ELSE op.out.results[Len(op.out.results)].error)
    /\ UNCHANGED <<queryCache, held, last, pool, callsLeft, ticksLeft,
                   security, requests, opsLeft>>

NextRetry ==
    WithRetry \/ InvokeOperation \/ Backoff

MaxRetry == 2      \* largest maxRetries of a configuration

\* configurations: the default list of retryable errors, and one without
\* ResponseError
RetryConfigs ==
    { [DEFAULT_RETRY_CONFIG EXCEPT !.maxRetries = n, !.retryableErrors = names] :
        n \in 0..MaxRetry,
        names \in { DEFAULT_RETRY_CONFIG.retryableErrors,
                    <<"ConnectionError", "TimeoutError">> } }

InitRetry ==
    /\ InitCommon
    /\ queryCache = <<>>
    /\ callsLeft = 0
    /\ opsLeft = MaxOps
    /\ security = DEFAULT_SECURITY_CONFIG
    /\ pool = RetryConfigs

\* The operation settles and the timer fires: every step of a call that can
\* be taken is taken.
SpecRetry ==
    /\ InitRetry
    /\ [][NextRetry]_vars
    /\ WF_vars(InvokeOperation)
    /\ WF_vars(Backoff)

----------------------------------------------------------------------------
(* update and remove of one document, request by request                   *)

\* An update and a remove in progress on the index: the documents the index
\* holds, and where each call is. A call's sent lists the requests it made
\* on the store client; created tells that the index request of the update
\* made a document the index did not hold.
CallAt(id, at, sent) == [id |-> id, at |-> at, sent |-> sent]

StoreState(docs, updating, upsert, created, removing) ==
    [NoOp EXCEPT !.name = "store",
                 !.out = [docs |-> docs, update |-> updating, upsert |-> upsert,
                          created |-> created, remove |-> removing]]

\* one more request of a call, which moves to at
Sent(call, api, at) == CallAt(call.id, at, Append(call.sent, api))

\* service._get(id, getParams) of update.ts:55, the query holding no field:
\* the store's get, NotFound when the index does not hold the document
UpdateGet ==
    /\ op.name = "store"
    /\ op.out.update.at = "start"
    /\ ~op.out.upsert
    /\ LET s == op.out
       IN  op' = StoreState(s.docs,
                    Sent(s.update, "get",
                         IF s.update.id \in s.docs THEN "got" ELSE "rejected"),
                    s.upsert, s.created, s.remove)
    /\ requests' = Append(requests, Request("get", ServiceIndex, 1, Null))
    /\ UNCHANGED <<queryCache, now, held, last, pool, callsLeft, ticksLeft,
                   security, opsLeft>>

\* service.Model.index(updateParams), update.ts:42 and 56: the store writes
\* the document whether or not it holds one of that id
UpdateIndex ==
    /\ op.name = "store"
    /\ \/ op.out.update.at = "got"
       \/ op.out.update.at = "start" /\ op.out.upsert
    /\ LET s == op.out
       IN  op' = StoreState(s.docs \cup {s.update.id},
                    Sent(s.update, "index", "indexed"),
                    s.upsert, s.update.id \notin s.docs, s.remove)
    /\ requests' = Append(requests, Request("index", ServiceIndex, 1, Null))
    /\ UNCHANGED <<queryCache, now, held, last, pool, callsLeft, ticksLeft,
                   security, opsLeft>>

\* service._get(result._id, params), update.ts:43-47 and 57
UpdateFetch ==
    /\ op.name = "store"
    /\ op.out.update.at = "indexed"
    /\ LET s == op.out
       IN  op' = StoreState(s.docs,
                    Sent(s.update, "get",
                         IF s.update.id \in s.docs THEN "resolved" ELSE "rejected"),
                    s.upsert, s.created, s.remove)
    /\ requests' = Append(requests, Request("get", ServiceIndex, 1, Null))
    /\ UNCHANGED <<queryCache, now, held, last, pool, callsLeft, ticksLeft,
                   security, opsLeft>>

\* service._get(id, params) of create.ts:112-113
RemoveGet ==
    /\ op.name = "store"
    /\ op.out.remove.at = "start"
    /\ LET s == op.out
       IN  op' = StoreState(s.docs, s.update, s.upsert, s.created,
                    Sent(s.remove, "get",
                         IF s.remove.id \in s.docs THEN "got" ELSE "rejected"))
    /\ requests' = Append(requests, Request("get", ServiceIndex, 1, Null))
    /\ UNCHANGED <<queryCache, now, held, last, pool, callsLeft, ticksLeft,
                   security, opsLeft>>

\* service.Model.delete(removeParams), create.ts:114
RemoveDelete ==
    /\ op.name = "store"
    /\ op.out.remove.at = "got"
    /\ LET s == op.out
       IN  op' = StoreState(s.docs \ {s.remove.id}, s.update, s.upsert, s.created,
                    Sent(s.remove, "delete",
                         IF s.remove.id \in s.docs THEN "resolved" ELSE "rejected"))
    /\ requests' = Append(requests, Request("delete", ServiceIndex, 1, Null))
    /\ UNCHANGED <<queryCache, now, held, last, pool, callsLeft, ticksLeft,
                   security, opsLeft>>

NextStore ==
    UpdateGet \/ UpdateIndex \/ UpdateFetch \/ RemoveGet \/ RemoveDelete

MaxIds == 2        \* document ids
Ids == 1..MaxIds

\* An update and a remove have been called, of any two ids, on an index
\* holding any of the documents.
InitStore ==
    /\ now = 0
    /\ held = NothingHeld
    /\ last = NoCall
    /\ ticksLeft = MaxTicks
    /\ requests = <<>>
    /\ queryCache = <<>>
    /\ callsLeft = 0
    /\ opsLeft = 0
    /\ security = DEFAULT_SECURITY_CONFIG
    /\ pool = {}
    /\ \E docs \in SUBSET Ids, u \in Ids, r \in Ids, upsert \in BOOLEAN :
          op = StoreState(docs, CallAt(u, "start", <<>>), upsert, FALSE,
                          CallAt(r, "start", <<>>))

SpecStore == InitStore /\ [][NextStore]_vars

----------------------------------------------------------------------------
(* Vocabulary of the properties                                            *)

Sections == {"must", "filter", "should", "must_not"}

RECURSIVE canon(_)
\* a value with the keys of every object in one fixed order: deep equality
\* of JavaScript values is equality of their canon
canon(val) ==
    CASE val.t = "array"  -> Arr([i \in 1..Len(val.v) |-> canon(val.v[i])])
      [] val.t = "object" ->
            LET ks == sortKeys(val)
            IN  Obj([i \in 1..Len(ks) |-> P(ks[i], canon(Get(val, ks[i])))])
      [] OTHER            -> val

DeepEqual(v1, v2) == canon(v1) = canon(v2)
SameOutcome(o1, o2) == o1.err = o2.err /\ DeepEqual(o1.val, o2.val)

\* what a top-level call would return on the given cache
wouldReturn(cache, query, idProp, maxDepth) ==
    IF query.t = "object" /\ cacheHas(cache, hashQuery(query, idProp))
    THEN LET cached == cacheGet(cache, hashQuery(query, idProp))
         IN  Ok(IF Truthy(cached.result) THEN jsonClone(cached.result) ELSE Null)
    ELSE parseQuery(query, idProp, maxDepth, 0)

\* the clauses of a section of an accumulator, none when it has no such section
sectionOf(acc, section) ==
    IF acc.t = "object" /\ Get(acc, section).t = "array"
    THEN Get(acc, section).v ELSE <<>>

Completed == last.kind = "call"
Succeeded == Completed /\ last.out.err = ""

\* C1: a top-level call has, in every cache state, the outcome the same call
\* has on an empty cache.
C1_MemoizationTransparent ==
    Completed =>
        SameOutcome(last.out, parseQuery(last.query, last.idProp, last.maxDepth, 0))

\* C2: a caller that changes the result it was given does not change what a
\* later call for the same filter and alias returns.
C2_ResultNotShared ==
    [][(held'.mutated /\ ~held.mutated) =>
          wouldReturn(queryCache', last.query, last.idProp, last.maxDepth)
            = wouldReturn(queryCache, last.query, last.idProp, last.maxDepth)]_vars

\* C3: a chain of n nested $and fails with the depth error exactly when
\* n > maxDepth and succeeds exactly when n <= maxDepth, whatever calls came
\* before.
C3_DepthRejection ==
    \A n \in 0..MaxChain :
        (Completed /\ last.query = AndChain(n, FA)) =>
            /\ (last.out.err = E_DEPTH) <=> (n > last.maxDepth)
            /\ (last.out.err = "") <=> (n <= last.maxDepth)

\* C4: a call never returns a stored result older than the max age.
C4_ExpiredEntryAbsent == (Completed /\ last.hit) => last.age <= CACHE_MAX_AGE

\* C5: the cache never holds more than CACHE_MAX_SIZE entries.
C5_CacheBounded == Len(queryCache) <= CACHE_MAX_SIZE

noNonEmptySection(acc) == \A section \in Sections : Len(sectionOf(acc, section)) = 0

\* C7 as stated: a call that reduces returns the sentinel exactly when the
\* accumulator has no non-empty section.
C7_SentinelIffNoNonEmptySection ==
    (Succeeded /\ last.reduced) =>
        ((last.out.val = Null) <=> noNonEmptySection(last.bool))

\* C7 amended: a call that reduces returns the sentinel exactly when the
\* accumulator has no key at all, and the accumulator as built otherwise;
\* null and undefined give the sentinel.
C7_SentinelIffNoKeys ==
    /\ (Succeeded /\ last.reduced) =>
          /\ (last.out.val = Null) <=> (Len(last.bool.v) = 0)
          /\ (last.out.val # Null) => (last.out.val = last.bool)
    /\ (Completed /\ last.query.t \in {"null", "undefined"}) => last.out = Ok(Null)
    /\ (Completed /\ last.reduced /\ last.query = EmptyObj) => last.out = Ok(Null)

\* an accumulator is returned whose only section is empty
C7_Witness ==
    /\ Succeeded /\ last.reduced
    /\ last.out.val # Null
    /\ noNonEmptySection(last.out.val)

\* C8: every failure of a call is a BadRequest.
C8_OnlyBadRequest == Completed => last.out.err \in BadRequestErrors \cup {""}

RECURSIVE shouldPaired(_)
\* every object of the result that has a non-empty should has
\* minimum_should_match = 1
shouldPaired(val) ==
    CASE val.t = "array"  -> \A i \in 1..Len(val.v) : shouldPaired(val.v[i])
      [] val.t = "object" ->
            /\ Len(sectionOf(val, "should")) > 0
                  => Get(val, "minimum_should_match") = Num(1)
            /\ \A i \in 1..Len(val.v) : shouldPaired(val.v[i].x)
      [] OTHER            -> TRUE

RECURSIVE concatSections(_, _, _)
\* the clauses of one section of the sub-results from the i-th on, in order
concatSections(i, results, section) ==
    IF i > Len(results) THEN <<>>
    ELSE sectionOf(results[i], section) \o concatSections(i + 1, results, section)

\* the last call ended its reduction with the key $and
EndsWithAnd ==
    /\ Succeeded /\ last.reduced
    /\ Len(last.query.v) > 0
    /\ last.query.v[Len(last.query.v)].k = "$and"

\* the accumulator the $and handler was given, and the sub-results
accBeforeAnd ==
    reduceQuery(Obj(SubSeq(last.query.v, 1, Len(last.query.v) - 1)),
                last.idProp, last.maxDepth, 0).val
subResultsOfAnd ==
    LET subs == last.query.v[Len(last.query.v)].x.v
    IN  [i \in 1..Len(subs) |-> parseQuery(subs[i], last.idProp, last.maxDepth, 1).val]

\* C10: $and appends to each section the sections of the sub-results in
\* array order after what was there, and minimum_should_match ends as the
\* value of the last sub-result that has one.
C10_AndMerge ==
    EndsWithAnd =>
        /\ \A section \in Sections :
              sectionOf(last.bool, section)
                = sectionOf(accBeforeAnd, section)
                    \o concatSections(1, subResultsOfAnd, section)
        /\ \A i \in 1..Len(subResultsOfAnd) :
              ( /\ subResultsOfAnd[i].t = "object"
                /\ Has(subResultsOfAnd[i], "minimum_should_match")
                /\ \A j \in (i + 1)..Len(subResultsOfAnd) :
                      ~(subResultsOfAnd[j].t = "object"
                        /\ Has(subResultsOfAnd[j], "minimum_should_match")) )
              => Get(last.bool, "minimum_should_match")
                   = Get(subResultsOfAnd[i], "minimum_should_match")

\* $and merged a should and a must into an accumulator that had a should
C10_Witness ==
    /\ EndsWithAnd
    /\ Len(sectionOf(accBeforeAnd, "should")) > 0
    /\ Len(concatSections(1, subResultsOfAnd, "should")) > 0
    /\ Len(concatSections(1, subResultsOfAnd, "must")) > 0
    /\ Len(sectionOf(last.bool, "should")) = 3

\* the field name a filter key is translated to
fieldOf(key, idProp) == IF key = idProp THEN "_id" ELSE key

termClause(field, val) == Obj(<<P("term", Obj(<<P(field, val)>>))>>)

\* {$and: [{f: v1}, ..., {f: vn}]}
AndOfTerms(f, vals) == F1("$and", Arr([i \in 1..Len(vals) |-> F1(f, vals[i])]))

NoAlias == "uid"

RECURSIVE renameAlias(_, _)
\* the filter with every filter key equal to the alias, at the top and in
\* the sub-filters of $or, $and, $nested, $child and $parent, replaced by
\* _id; the value of a replaced key is left as it is
renameAlias(query, alias) ==
    IF query.t # "object" THEN query
    ELSE Obj([i \in 1..Len(query.v) |->
            LET k == query.v[i].k
                x == query.v[i].x
            IN  IF k = alias THEN P("_id", x)
                ELSE IF k \in {"$or", "$and"} /\ x.t = "array"
                THEN P(k, Arr([j \in 1..Len(x.v) |-> renameAlias(x.v[j], alias)]))
                ELSE IF k \in {"$nested", "$child", "$parent"}
                THEN P(k, renameAlias(x, alias))
                ELSE P(k, x)])

\* C12: translating a filter under an alias is translating, under no
\* alias, the filter with every key equal to the alias replaced by _id at
\* every depth; such a key is treated as a field, never as an operator.
C12_IdAliasing ==
    (Completed /\ last.reduced) =>
        last.out = parseQuery(renameAlias(last.query, last.idProp), NoAlias,
                              last.maxDepth, 0)

\* the alias is a key at the top level and inside a sub-filter of $or, and
\* both clauses name _id
C12_Witness ==
    /\ Succeeded /\ last.reduced /\ last.idProp = "a"
    /\ last.query = F2("a", Num(1), "$or", Arr(<<FB, F1("a", F1("$lt", Num(3)))>>))
    /\ sectionOf(last.out.val, "filter") = <<termClause("_id", Num(1))>>
    /\ sectionOf(last.out.val, "should")[2]
         = Obj(<<P("bool", Obj(<<P("filter",
                Arr(<<Obj(<<P("range", Obj(<<P("_id", F1("lt", Num(3)))>>))>>)>>))>>))>>)

\* the last call translated a filter of one field with a criteria object
OneCriteriaField ==
    /\ Completed /\ last.reduced
    /\ Len(last.query.v) = 1
    /\ fieldOf(last.query.v[1].k, last.idProp) \notin SpecialKeys \cup {"__proto__"}
    /\ last.query.v[1].x.t = "object"

\* the clause the table fixes for a recognized criterion
criterionClause(field, criterion, val) ==
    LET path == queryCriteriaMap[criterion]
    IN  Obj(<<P(path[2],
              Obj(<<P(field, IF path[3] # "" THEN Obj(<<P(path[3], val)>>) ELSE val)>>))>>)

\* the clauses of one section for the recognized criteria of a criteria
\* object, in the order of its keys
expectedCriteria(field, criteria, section) ==
    LET recognized == SelectSeq(Keys(criteria),
                          LAMBDA c : c \in DOMAIN queryCriteriaMap
                                     /\ queryCriteriaMap[c][1] = section)
    IN  [i \in 1..Len(recognized) |->
            criterionClause(field, recognized[i], Get(criteria, recognized[i]))]

\* C13: a criteria object adds one clause per recognized criterion, in the
\* section and of the shape the table fixes; an unrecognized key adds no
\* clause and raises no error.
C13_CriteriaTranslation ==
    OneCriteriaField =>
        /\ last.out.err = ""
        /\ \A section \in Sections :
              sectionOf(last.out.val, section)
                = expectedCriteria(fieldOf(last.query.v[1].k, last.idProp),
                                   last.query.v[1].x, section)

\* the clause kinds whose object is keyed by a field name
FieldClauses ==
    {"term"} \cup {queryCriteriaMap[c][2] : c \in DOMAIN queryCriteriaMap}

RECURSIVE fieldsOf(_)
\* the field names the term and criteria clauses of a result name, those of
\* the bool clauses inside should, nested, has_child and has_parent included
fieldsOf(bool) ==
    IF bool.t # "object" THEN {}
    ELSE UNION { UNION { LET c == sectionOf(bool, section)[i]
                             kind == c.v[1].k
                             x == c.v[1].x
                         IN  IF kind = "bool" THEN fieldsOf(x)
                             ELSE IF kind \in {"nested", "has_child", "has_parent"}
                             THEN fieldsOf(Get(Get(x, "query"), "bool"))
                             ELSE IF kind \in FieldClauses THEN {x.v[1].k}
                             ELSE {}
                         : i \in 1..Len(sectionOf(bool, section)) }
                 : section \in Sections }

\* the keys of the model's filters that begin with $ and are no operator
UnknownOperators == {"$foo"}

\* C14: no clause of a result names a field that begins with $ and is no
\* recognized operator.
C14_NoDollarField ==
    Succeeded => fieldsOf(last.out.val) \cap UnknownOperators = {}

\* C15: raw calls the store client only for a method that is a member of
\* allowedRawMethods, and with an empty list it fails with MethodNotAllowed
\* without calling the client.
C15_RawAllowList ==
    op.name = "raw" =>
        /\ Len(issued) > 0 => includes(security.allowedRawMethods, op.method)
        /\ Len(security.allowedRawMethods) = 0
              => (op.err = E_NOT_ALLOWED /\ Len(issued) = 0)

\* an allowed method of an object of the client was called
C15_Witness ==
    /\ op.name = "raw" /\ op.err = ""
    /\ op.method = "indices.delete"
    /\ issued = <<Request("indices.delete", "", 0, Null)>>

\* the bulk methods
BulkMethods == {"createBulk", "patchBulk", "removeBulk"}

\* C16: no bulk request of a bulk method covers more documents than
\* maxBulkOperations.
C16_BulkLimit ==
    op.name \in BulkMethods =>
        \A i \in 1..Len(issued) :
            issued[i].api = "bulk" => issued[i].size <= security.maxBulkOperations

\* C17: every request of find, get, patch and remove goes to the default
\* index or to an index of allowedIndices.
C17_IndexAllowList ==
    op.name \in {"find", "get", "patch", "remove"} =>
        \A i \in 1..Len(issued) :
            \/ issued[i].index = ServiceIndex
            \/ includes(security.allowedIndices, issued[i].index)

\* the filter object of a call: its query without the directives that are
\* no part of the filter
filterObjectOf(paramsQuery) ==
    Obj(SelectSeq(paramsQuery.v,
            LAMBDA e : e.k \notin {"$index", "$select", "$limit", "$skip", "$sort",
                                   "$routing"}))

\* C18: find makes a search request only for a filter whose complexity is
\* within maxQueryComplexity, and fails with BadRequest otherwise.
C18_FindWithinBudget ==
    op.name = "find" =>
        IF calculateQueryComplexity(filterObjectOf(op.query)) > security.maxQueryComplexity
        THEN op.err = E_COMPLEXITY /\ Len(issued) = 0
        ELSE op.err # E_COMPLEXITY

\* C19 counterexample: Complexity monotonicity as stated. For a query Q whose
\* complexity the service measured and any query made from Q by adding one
\* $wildcard, $regexp or $script key to an object anywhere in it, the
\* complexity of the modified query is strictly greater than that of Q.
ExpensiveKeys == {"$wildcard", "$regexp", "$script"}

RECURSIVE addedAnywhere(_, _)
\* the values made from val by adding the key to one object inside it
addedAnywhere(val, key) ==
    CASE val.t = "object" ->
            (IF Has(val, key) THEN {} ELSE {Obj(Append(val.v, P(key, Str("z"))))})
            \cup UNION { { Obj([val.v EXCEPT ![i] = P(val.v[i].k, n)]) :
                             n \in addedAnywhere(val.v[i].x, key) } :
                         i \in 1..Len(val.v) }
      [] val.t = "array" ->
            UNION { { Arr([val.v EXCEPT ![i] = n]) :
                        n \in addedAnywhere(val.v[i], key) } :
                    i \in 1..Len(val.v) }
      [] OTHER -> {}

Measured == op.name \in {"find", "removeBulk"} /\ op.query.t = "object"

C19_MonotoneAnywhere ==
    Measured =>
        \A key \in ExpensiveKeys : \A modified \in addedAnywhere(op.query, key) :
            calculateQueryComplexity(modified) > calculateQueryComplexity(op.query)

RECURSIVE addedWhereQuery(_, _)
\* the values made from val by adding the key to one object that holds
\* conditions: val itself, a plain object under a field or under $nested,
\* $child or $parent, an item of an $or or $and array
addedWhereQuery(val, key) ==
    CASE val.t = "object" ->
            (IF Has(val, key) THEN {} ELSE {Obj(Append(val.v, P(key, Str("z"))))})
            \cup UNION { { Obj([val.v EXCEPT ![i] = P(val.v[i].k, n)]) :
                             n \in
                                LET k == val.v[i].k
                                    x == val.v[i].x
                                IN  CASE k \in {"$wildcard", "$regexp", "$fuzzy",
                                                "$prefix", "$script"} -> {}
                                      [] k \in {"$or", "$and"} ->
                                            IF x.t = "array"
                                            THEN addedWhereQuery(x, key) ELSE {}
                                      [] k \in {"$nested", "$child", "$parent"} ->
                                            addedWhereQuery(x, key)
                                      [] OTHER ->
                                            IF x.t = "object"
                                            THEN addedWhereQuery(x, key) ELSE {} } :
                         i \in 1..Len(val.v) }
      [] val.t = "array" ->
            UNION { { Arr([val.v EXCEPT ![i] = n]) :
                        n \in IF val.v[i].t = "object"
                              THEN addedWhereQuery(val.v[i], key) ELSE {} } :
                    i \in 1..Len(val.v) }
      [] OTHER -> {}

\* C19: Complexity monotonicity where conditions are held. For a query Q whose
\* complexity the service measured and any query made from Q by adding one
\* $wildcard, $regexp or $script key to Q itself, to a plain object under a
\* field, $nested, $child or $parent key, or to an item of an $or or $and
\* array, the complexity of the modified query is strictly greater.
C19_MonotoneWhereQuery ==
    Measured =>
        \A key \in ExpensiveKeys : \A modified \in addedWhereQuery(op.query, key) :
            calculateQueryComplexity(modified) > calculateQueryComplexity(op.query)

\* a measured $or query with a key added inside an item's criteria, where the
\* added cost counts twice
C19_Witness ==
    /\ op.name = "removeBulk"
    /\ op.query = F1("$or", Arr(<<FWild, FRegexp>>))
    /\ \E modified \in addedWhereQuery(op.query, "$script") :
          calculateQueryComplexity(modified) = calculateQueryComplexity(op.query) + 32

\* C20: The length limit of $sqs query strings is the configured
\* security.maxQueryStringLength. A find whose filter is one $sqs criterion
\* succeeds when the $query is no longer than the configured limit and
\* matches no denylisted pattern, and fails with the BadRequest of the
\* query string check when the $query is longer than the configured limit.
sqsQueryOf(query) == Get(Get(query, "$sqs"), "$query").v

SqsFind ==
    /\ op.name = "find"
    /\ op.query.t = "object"
    /\ Keys(op.query) = <<"$sqs">>

C20_SqsLengthLimit ==
    SqsFind =>
        LET str == sqsQueryOf(op.query)
        IN  /\ (Len(str) <= security.maxQueryStringLength /\ str \notin DangerousSamples)
                    => op.err = ""
            /\ Len(str) > security.maxQueryStringLength => op.err = E_SQS

\* C21: Result window. Every search request issued by find that carries a
\* size satisfies from + size <= 10000.
C21_ResultWindow ==
    op.name = "find" =>
        \A i \in 1..Len(issued) :
            (issued[i].api = "search" /\ issued[i].window.size.t = "number")
                => issued[i].window.from.v + issued[i].window.size.v <= MAX_WINDOW

\* C22: Result mapping. For a hit with identifier i and source S mapped with
\* no join field, the document's metadata field equals the hit without its
\* source, its id-alias field equals i, every source field named neither as
\* the metadata field nor as the id alias has its source value, and the hit
\* is as it was.
C22_ResultMapping ==
    (op.name = "mapItem" /\ Arg(op, "joinProp") = Undef) =>
        LET item == Arg(op, "item")
            idProp == Arg(op, "idProp").v
            source == Get(item, "_source")
            result == Get(op.out, "result")
        IN  /\ op.err = ""
            /\ DeepEqual(Get(result, ServiceMeta), Del(item, "_source"))
            /\ Has(item, "_id") => Get(result, idProp) = Get(item, "_id")
            /\ source.t = "object" =>
                  \A i \in 1..Len(source.v) :
                      source.v[i].k \notin {ServiceMeta, idProp}
                          => Get(result, source.v[i].k) = source.v[i].x
            /\ Get(op.out, "item") = item

RECURSIVE keysWithin(_)
\* the keys of the objects of a value, at every level
keysWithin(val) ==
    CASE val.t = "object" ->
            {val.v[i].k : i \in 1..Len(val.v)}
            \cup UNION {keysWithin(val.v[i].x) : i \in 1..Len(val.v)}
      [] val.t = "array" -> UNION {keysWithin(val.v[i]) : i \in 1..Len(val.v)}
      [] OTHER -> {}

DangerousKeys == {"__proto__", "constructor", "prototype"}

RECURSIVE keptFrom(_, _)
\* out holds the keys of val that are not dangerous, in order, each with the
\* kept part of its value
keptFrom(val, out) ==
    CASE val.t = "object" ->
            /\ out.t = "object"
            /\ Keys(out) = SelectSeq(Keys(val), LAMBDA k : k \notin DangerousKeys)
            /\ \A i \in 1..Len(out.v) : keptFrom(Get(val, out.v[i].k), out.v[i].x)
      [] val.t = "array" ->
            /\ out.t = "array"
            /\ Len(out.v) = Len(val.v)
            /\ \A i \in 1..Len(val.v) : keptFrom(val.v[i], out.v[i])
      [] OTHER -> out = val

E_FORBIDDEN == "Forbidden"

\* C24: validateSearchableFields accepts every request when the allow-list
\* is empty; otherwise it accepts exactly when every requested field without
\* its boost suffix is in the allow-list, and it reports a violation as a
\* Forbidden error.
C24_SearchableFields ==
    op.name = "validateSearchableFields" =>
        LET requested == stringsOf(Arg(op, "requestedFields"))
            allowed == stringsOf(Arg(op, "allowedFields"))
            allIn == \A i \in 1..Len(requested) :
                        includes(allowed, CleanField[requested[i]])
        IN  /\ (Len(allowed) = 0 \/ allIn) <=> op.err = ""
            /\ op.err # "" => op.err = E_FORBIDDEN

\* the kinds of value the term translation is stated for
TermKinds == {"string", "number", "boolean", "null", "undefined", "array"}

\* C25: for a filter {f: v} with f no special operator and v of a kind other
\* than object, the translation succeeds and its filter section holds the
\* term clauses of v: one per element of an array, one otherwise.
C25_TermRouting ==
    ( /\ Completed /\ last.reduced
      /\ Len(last.query.v) = 1
      /\ last.query.v[1].k \in ArrayFields
      /\ getType(last.query.v[1].x) \in TermKinds ) =>
        LET f == last.query.v[1].k
            value == last.query.v[1].x
            vals == IF value.t = "array" THEN value.v ELSE <<value>>
        IN  /\ last.out.err = ""
            /\ sectionOf(last.out.val, "filter")
                 = [i \in 1..Len(vals) |-> termClause(fieldOf(f, last.idProp), vals[i])]

\* C26 counterexample: validateQueryDepth(Q, d) fails with the depth error
\* exactly when the translation of Q with limit d on an empty cache fails
\* with the depth error.
C26_DepthCheckerMirrors ==
    op.name = "validateQueryDepth" =>
        ( op.err = E_DEPTH
          <=> parseQuery(Arg(op, "query"), "id", Arg(op, "maxDepth").v, 0).err = E_DEPTH )

\* C26: validateQueryDepth is at least as strict as the translator. Whenever the translation of Q with limit d on an empty
\* cache fails with the depth error, validateQueryDepth(Q, d) fails with the
\* depth error.
C26_DepthCheckerAtLeastAsStrict ==
    op.name = "validateQueryDepth" =>
        ( parseQuery(Arg(op, "query"), "id", Arg(op, "maxDepth").v, 0).err = E_DEPTH
          => op.err = E_DEPTH )

\* a chain of two $and under the limit 1: both fail with the depth error
C26_Witness ==
    /\ op.name = "validateQueryDepth"
    /\ Arg(op, "query") = AndChain(2, FA)
    /\ Arg(op, "maxDepth") = Num(1)
    /\ op.err = E_DEPTH
    /\ parseQuery(Arg(op, "query"), "id", 1, 0).err = E_DEPTH

\* the entries of a cache
entrySet(cache) == {cache[i] : i \in 1..Len(cache)}

\* C27: Cache eviction. After cleanCache no entry older than the max age
\* remains and the cache holds at most CACHE_MAX_SIZE entries; what remains
\* are unexpired entries of the cache it found; unexpired entries are removed
\* only as far as they exceed the bound, and every removed one is at least as
\* old as every entry that remains.
C27_CacheEviction ==
    op.name = "cleanCache" =>
        LET unexpired == {e \in entrySet(op.out) : ~(now - e.timestamp > CACHE_MAX_AGE)}
            remains == entrySet(queryCache)
        IN  /\ \A e \in remains : ~(now - e.timestamp > CACHE_MAX_AGE)
            /\ Len(queryCache) <= CACHE_MAX_SIZE
            /\ remains \subseteq unexpired
            /\ Cardinality(remains) = Len(queryCache)
            /\ Len(queryCache) = Min(Cardinality(unexpired), CACHE_MAX_SIZE)
            /\ \A r \in unexpired \ remains : \A k \in remains :
                  r.timestamp <= k.timestamp

\* a cache over the bound whose oldest unexpired entry was inserted last:
\* that entry was removed and the one inserted first remains
C27_Witness ==
    /\ op.name = "cleanCache"
    /\ Len(op.out) > CACHE_MAX_SIZE
    /\ Len(queryCache) = CACHE_MAX_SIZE
    /\ ~(now - op.out[Len(op.out)].timestamp > CACHE_MAX_AGE)
    /\ op.out[Len(op.out)] \notin entrySet(queryCache)
    /\ op.out[1] \in entrySet(queryCache)

\* C28: Only a top-level call that succeeds writes the cache. In a step that
\* is a call, an entry the cache did not hold before is the entry of the
\* call's own filter, stored at the time of the call by a call that did not
\* fail; and a call that runs the reduction returns what the translation
\* gives without a cache, so no sub-filter is looked up or stored.
C28_OnlySuccessfulTopLevelWrites ==
    [][ callsLeft' < callsLeft =>
          LET added == entrySet(queryCache') \ entrySet(queryCache)
          IN  /\ last'.out.err # "" => added = {}
              /\ \A e \in added :
                    /\ e.key = hashQuery(last'.query, last'.idProp)
                    /\ e.timestamp = now
              /\ last'.reduced =>
                    last'.out = parseQuery(last'.query, last'.idProp, last'.maxDepth, 0)
      ]_vars

\* {$and: [{a: 1}]} was translated while the cache held for {a: 1} a result
\* that is not its translation; the cache holds no entry but these two
C28_Witness ==
    /\ Succeeded /\ last.reduced
    /\ last.query = AndChain(1, FA)
    /\ cacheHas(queryCache, hashQuery(FA, last.idProp))
    /\ cacheGet(queryCache, hashQuery(FA, last.idProp)).result
          # parseQuery(FA, last.idProp, last.maxDepth, 0).val
    /\ Len(queryCache) = 2

RetryEnded == op.name = "withRetry" /\ op.out.at \in {"resolved", "rejected"}

\* what holds of a call of withRetry at every moment, but for the statuses
\* of a ResponseError
RetryBounded ==
    op.name = "withRetry" =>
        LET s == op.out
            n == Len(s.results)
        IN  /\ n <= s.config.maxRetries + 1
            /\ \A i \in 1..(n - 1) :
                  ~s.results[i].ok /\ isRetryableError(s.results[i].error, s.config)
            /\ s.at = "resolved" => n >= 1 /\ s.results[n].ok
            /\ s.at = "rejected" =>
                  /\ n >= 1 /\ ~s.results[n].ok
                  /\ s.thrown = s.results[n].error
                  /\ \/ ~isRetryableError(s.thrown, s.config)
                     \/ n = s.config.maxRetries + 1
            /\ s.at \in {"running", "waiting"} => n = s.attempt + (IF s.at = "waiting" THEN 1 ELSE 0)

\* the status of an error as isRetryableError reads it
statusOf(error) == IF error.metaStatus # 0 THEN error.metaStatus ELSE error.statusCode

C30_UpdateWritesExisting ==
    (op.name = "store" /\ ~op.out.upsert) =>
        LET u == op.out.update
        IN  /\ includes(u.sent, "index") => Len(u.sent) >= 2 /\ u.sent[1] = "get" /\ u.sent[2] = "index"
            /\ (u.at = "rejected" /\ Len(u.sent) = 1) => u.sent = <<"get">>
            /\ ~op.out.created

====
